---- MODULE Spec2Model ----
(***************************************************************************)
(* hecate-gpu: the GPU monitor (bounded metric history, alert rules,       *)
(* statistics) and the GPU manager (backend registry, cached device list,  *)
(* event channel, monitoring flag), modelled from                          *)
(* src/rust/hecate-gpu/src/{monitor,lib,nvidia,amd}.rs.                     *)
(*                                                                         *)
(* Two specifications share the module: SpecMonitor drives one GpuMonitor  *)
(* through its public operations, SpecManager drives one GpuManager (with   *)
(* its NVIDIA and AMD backends) through calls made one at a time.          *)
(***************************************************************************)
EXTENDS Integers, Sequences, FiniteSets, TLC

\* ---------------------------------------------------------------------
\* Bounds of the model
\* ---------------------------------------------------------------------

\* Capacity given to max_history_length. GpuMonitor::new sets 1440
\* (monitor.rs:177); the model runs the same eviction loop on a short ring.
MaxHistoryLength == 2

\* record_metrics calls explored since construction / the last clear_all_history.
MaxRecords == 3

\* Polling intervals that elapse while the monitoring flag is observed.
MaxIntervals == 2

\* Calls of record_metrics in a run that studies the alert rules over a
\* device's history (the sustained-utilization rule needs five points).
MaxRuleRecords == 5

\* Longest window of points handed to the monitor's efficiency score.
MaxWindow == 2

\* Points of one device inside the window of a trend analysis.
MaxTrendPoints == 6

\* Most control points of a sampled fan curve.
MaxCurvePoints == 3

\* Values the event channel retains (broadcast::channel(1000) in the code).
ChannelCapacity == 2

\* ---------------------------------------------------------------------
\* Shared data model (lib.rs)
\* ---------------------------------------------------------------------

Vendors == {"NVIDIA", "AMD"}

\* Indices a vendor backend gives its devices: each backend numbers its own
\* devices from 0 (nvidia.rs:264, amd.rs:43).
DeviceIndices == {0, 1}

\* How many receivers of a broadcast channel are alive (what matters to a
\* send is whether there is one).
ReceiverCounts == {0, 1}

Max(a, b) == IF a >= b THEN a ELSE b

\* A GpuStatus snapshot: the fields the manager and the monitor read.
MkStatus(vendor, index, temperature, power_draw, power_limit, memory_used, memory_total, utilization_gpu) ==
    [ index              |-> index,
      vendor             |-> vendor,
      temperature        |-> temperature,
      power_draw         |-> power_draw,
      power_limit        |-> power_limit,
      memory_used        |-> memory_used,
      memory_total       |-> memory_total,
      utilization_gpu    |-> utilization_gpu,
      utilization_memory |-> utilization_gpu,
      fan_speed          |-> 50,
      clock_graphics     |-> 1500,
      clock_memory       |-> 7000 ]

\* Snapshots pushed into the monitor: below the warning temperature, at the
\* warning threshold, at the critical threshold; the second also crosses the
\* default power (90 %) and memory (85 %) thresholds and is at full load.
MonitorStatuses ==
    { MkStatus("NVIDIA", 0, 79, 100, 300, 1, 8, 10),
      MkStatus("NVIDIA", 0, 80, 270, 300, 7, 8, 96),
      MkStatus("NVIDIA", 0, 90, 100, 300, 1, 8, 96) }

\* Snapshots for the alert rules: one that crosses no threshold and one that
\* crosses every default threshold.
RuleStatuses ==
    { MkStatus("NVIDIA", 0, 60, 100, 300, 1, 8, 50),
      MkStatus("NVIDIA", 0, 90, 270, 300, 7, 8, 96) }

\* Device indices handed to the monitor.
MonitorDevices == {0, 1}

\* Wall-clock readings (seconds since the epoch) the monitor can observe.
Times == {1000, 1400}

\* ---------------------------------------------------------------------
\* State
\* ---------------------------------------------------------------------

VARIABLES
    \* GpuMonitor (monitor.rs:11-22)
    metrics_history,     \* HashMap<u32, VecDeque<MetricsPoint>>
    alert_config,        \* AlertConfig
    stats,               \* MonitoringStats
    max_history_length,  \* usize
    mon_receivers,       \* receivers alive on the monitor's event_sender
    now,                 \* SystemTime::now() in seconds
    mon_call,            \* the last GpuMonitor call: arguments, sends, result
    arrivals,            \* per device, every point recorded since it was last cleared
    mon_counts,          \* record_metrics calls made and alerts sent since construction or clear_all_history
    \* The broadcast channel behind the monitor's event_sender
    channel,             \* next position and the values the channel retains
    subscribers,         \* per live receiver: next position to read, what it has read
    \* GpuManager (lib.rs:362-374) and its backends
    backends,            \* vendors whose backend was registered by GpuManager::new
    backend_order,       \* iteration order of the backends HashMap
    gpus,                \* cached Vec<GpuStatus>
    monitoring_enabled,  \* MonitoringConfig.enabled
    nvidia_devices,      \* NvidiaBackend.devices (keys)
    amd_devices,         \* AmdBackend.devices (keys)
    amd_order,           \* iteration order of the AMD devices HashMap
    hw,                  \* what the host's hardware answers to the backends
    mgr_receivers,       \* receivers alive on the manager's event_tx
    mgr_call,            \* the last GpuManager call: arguments, backend calls, events, result
    hw_changed,          \* the hardware changed since the last detect_gpus call (or none was made)
    enabled_intervals,   \* polling intervals elapsed since the flag was last set
    loop_polls,          \* iterations run by a monitoring loop since the flag was last set
    \* Calls in progress on the manager and its backends
    tasks,               \* per caller: the call it is in and where it stands
    gpus_lock,           \* GpuManager.gpus (RwLock)
    devices_lock,        \* per vendor, the backend's devices (RwLock)
    backend_call,        \* the last call made on a backend directly
    \* Functions taken on their own
    fn_args,             \* the arguments the function under study is called with
    fn_result            \* what the call produced

monVars == << metrics_history, alert_config, stats, max_history_length,
              mon_receivers, now, mon_call, arrivals, mon_counts >>

chanVars == << channel, subscribers >>

conVars == << tasks, gpus_lock, devices_lock, backend_call >>

mgrVars == << backends, backend_order, gpus, monitoring_enabled, nvidia_devices,
              amd_devices, amd_order, hw, mgr_receivers, mgr_call,
              hw_changed, enabled_intervals, loop_polls >>

fnVars == << fn_args, fn_result >>

vars == << monVars, mgrVars, fnVars, chanVars, conVars >>

\* ---------------------------------------------------------------------
\* GpuMonitor (monitor.rs)
\* ---------------------------------------------------------------------

\* Option<T>: None is the empty sequence, Some(x) is <<x>>.
None == << >>
Some(x) == << x >>

\* impl From<&GpuStatus> for MetricsPoint; t is SystemTime::now() in seconds.
MetricsPointFrom(status, t) ==
    [ timestamp          |-> t,
      temperature        |-> status.temperature,
      power_draw         |-> status.power_draw,
      utilization_gpu    |-> status.utilization_gpu,
      utilization_memory |-> status.utilization_memory,
      memory_used        |-> status.memory_used,
      clock_graphics     |-> status.clock_graphics,
      clock_memory       |-> status.clock_memory,
      fan_speed          |-> status.fan_speed ]

\* impl Default for AlertConfig
DefaultAlertConfig ==
    [ temperature_warning             |-> 80,
      temperature_critical            |-> 90,
      power_usage_warning             |-> 90,
      memory_usage_warning            |-> 85,
      utilization_sustained_threshold |-> 95,
      utilization_sustained_duration  |-> 300,
      enable_performance_alerts       |-> TRUE,
      enable_thermal_alerts           |-> TRUE,
      enable_power_alerts             |-> TRUE,
      enable_memory_alerts            |-> TRUE ]

\* Configurations a caller hands to set_alert_config: any order of the two
\* temperature thresholds (the code does not require warning < critical),
\* thermal alerts on or off.
AlertConfigs ==
    { [ DefaultAlertConfig EXCEPT !.temperature_warning   = p[1],
                                  !.temperature_critical  = p[2],
                                  !.enable_thermal_alerts = e ] :
        p \in { <<80, 90>>, <<90, 80>> }, e \in BOOLEAN }

\* The default thresholds with every combination of the four enable flags.
RuleConfigs ==
    { [ DefaultAlertConfig EXCEPT !.enable_thermal_alerts     = f[1],
                                  !.enable_power_alerts       = f[2],
                                  !.enable_memory_alerts      = f[3],
                                  !.enable_performance_alerts = f[4] ] :
        f \in BOOLEAN \X BOOLEAN \X BOOLEAN \X BOOLEAN }

\* impl Default for MonitoringStats
DefaultStats ==
    [ total_metrics_collected     |-> 0,
      alerts_triggered            |-> 0,
      uptime_seconds              |-> 0,
      last_collection_time        |-> None,
      gpu_count                   |-> 0,
      average_collection_interval |-> 0 ]

\* metrics_history.entry(gpu_index).or_insert_with(VecDeque::new)
HistoryEntry(history_map, gpu_index) ==
    IF gpu_index \in DOMAIN history_map THEN history_map[gpu_index] ELSE << >>

\* the map with key gpu_index bound to history
Put(history_map, gpu_index, history) ==
    [ i \in (DOMAIN history_map) \cup {gpu_index} |->
        IF i = gpu_index THEN history ELSE history_map[i] ]

\* Eviction that drops the newest point instead of the oldest (pop_back).
RECURSIVE EvictNewest(_, _)
EvictNewest(history, max_len) ==
    IF Len(history) > max_len
    THEN EvictNewest(SubSeq(history, 1, Len(history) - 1), max_len)
    ELSE history

\* while history.len() > self.max_history_length { history.pop_front(); }
RECURSIVE Evict(_, _)
Evict(history, max_len) ==
    IF Len(history) > max_len THEN Evict(Tail(history), max_len) ELSE history

\* The temperature rule with the warning threshold tested first.
TemperatureAlertsWarningFirst(gpu_index, status, cfg) ==
    IF ~cfg.enable_thermal_alerts THEN << >>
    ELSE IF status.temperature >= cfg.temperature_warning
         THEN << [ type        |-> "TemperatureAlert",
                   gpu_index   |-> gpu_index,
                   temperature |-> status.temperature,
                   threshold   |-> cfg.temperature_warning ] >>
         ELSE IF status.temperature >= cfg.temperature_critical
              THEN << [ type        |-> "TemperatureAlert",
                        gpu_index   |-> gpu_index,
                        temperature |-> status.temperature,
                        threshold   |-> cfg.temperature_critical ] >>
              ELSE << >>

\* Temperature rule of check_alerts: critical first, else warning.
TemperatureAlerts(gpu_index, status, cfg) ==
    IF ~cfg.enable_thermal_alerts THEN << >>
    ELSE IF status.temperature >= cfg.temperature_critical
         THEN << [ type        |-> "TemperatureAlert",
                   gpu_index   |-> gpu_index,
                   temperature |-> status.temperature,
                   threshold   |-> cfg.temperature_critical ] >>
         ELSE IF status.temperature >= cfg.temperature_warning
              THEN << [ type        |-> "TemperatureAlert",
                        gpu_index   |-> gpu_index,
                        temperature |-> status.temperature,
                        threshold   |-> cfg.temperature_warning ] >>
              ELSE << >>

\* Unsigned machine integers wider than the checker's own are carried as
\* two limbs << high, low >> with low < 2^16: the value is high * 2^16 + low.
Limb == 65536

Limbs(n) == << n \div Limb, n % Limb >>

\* a >= b on limbs
GeLimbs(a, b) == a[1] > b[1] \/ (a[1] = b[1] /\ a[2] >= b[2])

\* n * 100, exact
Mul100(n) ==
    LET low == (n % Limb) * 100
    IN << (n \div Limb) * 100 + low \div Limb, low % Limb >>

\* a / d, exact (integer division), for a divisor below 2^15
DivLimbs(a, d) ==
    << a[1] \div d, (((a[1] % d) * Limb) + a[2]) \div d >>

\* the low 32 bits of a: what a wrapping u32 operation or `as u32` keeps
WrapU32(a) == << a[1] % Limb, a[2] >>

\* a does not fit a u32
OverflowsU32(a) == a[1] >= Limb

\* status.power_draw * 100 overflows its u32 operands: the multiplication
\* panics in a build with overflow checks and wraps in one without.
PowerProductOverflows(status) == OverflowsU32(Mul100(status.power_draw))

\* (status.power_draw * 100) / status.power_limit.max(1), as a build without
\* overflow checks computes it
PowerPercentage(status) ==
    DivLimbs(WrapU32(Mul100(status.power_draw)), Max(status.power_limit, 1))

\* Power rule: (power_draw * 100) / power_limit.max(1) against the threshold.
PowerAlerts(gpu_index, status, cfg) ==
    IF ~cfg.enable_power_alerts THEN << >>
    ELSE LET power_percentage == PowerPercentage(status)
         IN IF GeLimbs(power_percentage, Limbs(cfg.power_usage_warning))
            THEN << [ type        |-> "PowerAlert",
                      gpu_index   |-> gpu_index,
                      power_draw  |-> status.power_draw,
                      power_limit |-> status.power_limit ] >>
            ELSE << >>

\* ((status.memory_used * 100) / status.memory_total.max(1)) as u32: the
\* product is a u64 (it cannot overflow for the values carried here, which
\* are below 2^31), the cast keeps the quotient's low 32 bits.
MemoryPercentage(status) ==
    WrapU32(DivLimbs(Mul100(status.memory_used), Max(status.memory_total, 1)))

\* the memory rule reading the power rule's enable flag
MemoryAlertsByPowerFlag(gpu_index, status, cfg) ==
    IF ~cfg.enable_power_alerts THEN << >>
    ELSE LET memory_percentage == MemoryPercentage(status)
         IN IF GeLimbs(memory_percentage, Limbs(cfg.memory_usage_warning))
            THEN << [ type         |-> "VramAlert",
                      gpu_index    |-> gpu_index,
                      used_percent |-> memory_percentage,
                      threshold    |-> cfg.memory_usage_warning ] >>
            ELSE << >>

\* Memory rule: (memory_used * 100) / memory_total.max(1) against the threshold.
MemoryAlerts(gpu_index, status, cfg) ==
    IF ~cfg.enable_memory_alerts THEN << >>
    ELSE LET memory_percentage == MemoryPercentage(status)
         IN IF GeLimbs(memory_percentage, Limbs(cfg.memory_usage_warning))
            THEN << [ type         |-> "VramAlert",
                      gpu_index    |-> gpu_index,
                      used_percent |-> memory_percentage,
                      threshold    |-> cfg.memory_usage_warning ] >>
            ELSE << >>

\* history.iter().rev().take_while(|p| p.timestamp >= threshold_time)
RECURSIVE TailSince(_, _)
TailSince(history, threshold_time) ==
    IF history = << >> THEN << >>
    ELSE LET last == history[Len(history)]
         IN IF last.timestamp >= threshold_time
            THEN Append(TailSince(SubSeq(history, 1, Len(history) - 1),
                                  threshold_time), last)
            ELSE << >>

\* check_sustained_utilization_alert; scores are carried in hundredths.
SustainedUtilizationAlerts(gpu_index, status, history_map, cfg, t) ==
    IF gpu_index \notin DOMAIN history_map THEN << >>
    ELSE LET history        == history_map[gpu_index]
             threshold_time == t - cfg.utilization_sustained_duration
             scanned        == TailSince(history, threshold_time)
             sustained_high_util ==
                 \A k \in 1 .. Len(scanned) :
                     scanned[k].utilization_gpu >= cfg.utilization_sustained_threshold
         IN IF sustained_high_util /\ Len(history) >= 5
            THEN << [ type           |-> "PerformanceDegraded",
                      gpu_index      |-> gpu_index,
                      expected_score |-> 70,
                      actual_score   |-> status.utilization_gpu ] >>
            ELSE << >>

\* check_alerts: the events handed to send_alert, in order.
CheckAlerts(gpu_index, status, history_map, cfg, t) ==
    TemperatureAlerts(gpu_index, status, cfg)
      \o PowerAlerts(gpu_index, status, cfg)
      \o MemoryAlerts(gpu_index, status, cfg)
      \o (IF cfg.enable_performance_alerts
          THEN SustainedUtilizationAlerts(gpu_index, status, history_map, cfg, t)
          ELSE << >>)

\* check_alerts in a build with (overflow_checks) or without overflow checks:
\* the power rule's multiplication panics in the former when the product
\* does not fit, after the temperature rule has sent its alert.
CheckAlertsOutcome(gpu_index, status, history_map, cfg, t, overflow_checks) ==
    IF cfg.enable_power_alerts /\ overflow_checks /\ PowerProductOverflows(status)
    THEN [ done |-> TRUE, panicked |-> TRUE,
           events |-> TemperatureAlerts(gpu_index, status, cfg) ]
    ELSE [ done |-> TRUE, panicked |-> FALSE,
           events |-> CheckAlerts(gpu_index, status, history_map, cfg, t) ]

\* broadcast::Sender::send fails exactly when no receiver is alive.
SendOk(receivers) == receivers > 0

\* send_alert counting the alert whether or not the send succeeded.
SendAlertCountingFailures(st, receivers) ==
    [ st EXCEPT !.alerts_triggered = @ + 1 ]

\* send_alert: a failed send is logged, a successful one is counted.
SendAlert(st, receivers) ==
    IF SendOk(receivers)
    THEN [ st EXCEPT !.alerts_triggered = @ + 1 ]
    ELSE st

RECURSIVE SendAll(_, _, _)
SendAll(st, events, receivers) ==
    IF events = << >> THEN st
    ELSE SendAll(SendAlert(st, receivers), Tail(events), receivers)

\* record_metrics handing a failed send on to its caller.
RecordMetricsResultPropagating(events, receivers) ==
    IF events # << >> /\ ~SendOk(receivers) THEN "Err" ELSE "Ok"

\* What record_metrics returns after check_alerts: send_alert returns no
\* error and check_alerts ends in Ok(()), so nothing reaches the `?`.
RecordMetricsResult(events, receivers) == "Ok"

MonIdleCall == [ op |-> "none" ]

\* no call recorded, no alert sent yet
NoCounts == [ recorded |-> 0, sent |-> 0 ]

\* A channel nothing was sent on, without receivers.
ChanAtRest ==
    /\ channel = [ pos |-> 0, buffer |-> << >>, log |-> << >> ]
    /\ subscribers = << >>

MonInit ==
    /\ metrics_history = << >>
    /\ alert_config = DefaultAlertConfig
    /\ stats = DefaultStats
    /\ max_history_length = MaxHistoryLength
    /\ mon_receivers \in ReceiverCounts
    /\ now = 1000
    /\ mon_call = MonIdleCall
    /\ arrivals = << >>
    /\ mon_counts = NoCounts
    /\ ChanAtRest

\* pub fn set_alert_config
SetAlertConfig(config) ==
    /\ alert_config' = config
    /\ mon_call' = [ op |-> "set_alert_config" ]
    /\ UNCHANGED << metrics_history, stats, max_history_length, mon_receivers,
                    now, arrivals, mon_counts >>

\* pub async fn record_metrics
RecordMetrics(gpu_index, status) ==
    /\ LET point   == MetricsPointFrom(status, now)
           history == HistoryEntry(metrics_history, gpu_index)
           kept    == Evict(Append(history, point), max_history_length)
           stored  == Put(metrics_history, gpu_index, kept)
           stats1  == [ stats EXCEPT
                          !.total_metrics_collected = @ + 1,
                          !.last_collection_time    = Some(point.timestamp),
                          !.gpu_count               = Cardinality(DOMAIN stored) ]
           events  == CheckAlerts(gpu_index, status, stored, alert_config, now)
       IN /\ metrics_history' = stored
          /\ stats' = SendAll(stats1, events, mon_receivers)
          /\ arrivals' = Put(arrivals, gpu_index,
                             Append(HistoryEntry(arrivals, gpu_index), point))
          /\ mon_call' = [ op            |-> "record_metrics",
                           gpu_index     |-> gpu_index,
                           status        |-> status,
                           config        |-> alert_config,
                           time          |-> now,
                           point         |-> point,
                           events        |-> events,
                           delivered     |-> SendOk(mon_receivers),
                           stats_before  |-> stats,
                           result        |-> RecordMetricsResult(events, mon_receivers) ]
          /\ mon_counts' = [ mon_counts EXCEPT
                               !.recorded = @ + 1,
                               !.sent     = @ + (IF SendOk(mon_receivers)
                                                 THEN Len(events) ELSE 0) ]
    /\ UNCHANGED << alert_config, max_history_length, mon_receivers, now >>

\* clear_history dropping the device's entry instead of emptying it.
ClearHistoryRemovingEntry(gpu_index) ==
    /\ metrics_history' = [ i \in DOMAIN metrics_history \ {gpu_index} |->
                              metrics_history[i] ]
    /\ arrivals' = [ i \in DOMAIN arrivals \ {gpu_index} |-> arrivals[i] ]
    /\ mon_call' = [ op |-> "clear_history", gpu_index |-> gpu_index ]
    /\ UNCHANGED << alert_config, stats, max_history_length, mon_receivers, now,
                    mon_counts >>

\* pub fn clear_history
ClearHistory(gpu_index) ==
    /\ IF gpu_index \in DOMAIN metrics_history
       THEN /\ metrics_history' = [ metrics_history EXCEPT ![gpu_index] = << >> ]
            /\ arrivals' = [ arrivals EXCEPT ![gpu_index] = << >> ]
       ELSE UNCHANGED << metrics_history, arrivals >>
    /\ mon_call' = [ op |-> "clear_history", gpu_index |-> gpu_index ]
    /\ UNCHANGED << alert_config, stats, max_history_length, mon_receivers, now,
                    mon_counts >>

\* pub fn clear_all_history
ClearAllHistory ==
    /\ metrics_history' = << >>
    /\ stats' = DefaultStats
    /\ arrivals' = << >>
    /\ mon_call' = [ op |-> "clear_all_history" ]
    /\ mon_counts' = NoCounts
    /\ UNCHANGED << alert_config, max_history_length, mon_receivers, now >>

\* A consumer subscribes to the sender the monitor was built with.
MonSubscribe ==
    /\ mon_receivers + 1 \in ReceiverCounts
    /\ mon_receivers' = mon_receivers + 1
    /\ UNCHANGED << metrics_history, alert_config, stats, max_history_length,
                    now, mon_call, arrivals, mon_counts >>

\* A consumer drops its receiver.
MonDropReceiver ==
    /\ mon_receivers > 0
    /\ mon_receivers' = mon_receivers - 1
    /\ UNCHANGED << metrics_history, alert_config, stats, max_history_length,
                    now, mon_call, arrivals, mon_counts >>

\* The wall clock advances.
Tick ==
    /\ \E t \in Times : t > now /\ now' = t
    /\ UNCHANGED << metrics_history, alert_config, stats, max_history_length,
                    mon_receivers, mon_call, arrivals, mon_counts >>

\* ---------------------------------------------------------------------
\* Vendor backends (nvidia.rs, amd.rs)
\* ---------------------------------------------------------------------

\* Result<T>
Ok == [ ok |-> TRUE ]
OkWith(value) == [ ok |-> TRUE, value |-> value ]
GpuNotFound(index) == [ ok |-> FALSE, error |-> "GpuNotFound", index |-> index ]
BackendNotAvailable(vendor) ==
    [ ok |-> FALSE, error |-> "BackendNotAvailable", vendor |-> vendor ]
OperationNotSupported == [ ok |-> FALSE, error |-> "OperationNotSupported" ]
DeviceError == [ ok |-> FALSE, error |-> "DeviceError" ]

\* GpuMonitor (monitor.rs), continued.
\* pub fn export_metrics: GpuNotFound for a device without a history entry,
\* else the entry's points as a JSON array, one object per point in order
\* (serialising a VecDeque of MetricsPoint cannot fail).
ExportMetrics(history_map, gpu_index) ==
    IF gpu_index \notin DOMAIN history_map THEN GpuNotFound(gpu_index)
    ELSE OkWith([ k \in 1 .. Len(history_map[gpu_index]) |->
                    [ object |-> history_map[gpu_index][k] ] ])

\* The status a backend builds for its device `index`: get_device_status
\* stamps the backend's own vendor and the backend's own numbering.
DeviceStatus(vendor, index) == MkStatus(vendor, index, 60, 100, 300, 1, 8, 50)

\* the indices of a set, ascending (for i in 0..device_count)
RECURSIVE Ascending(_)
Ascending(S) ==
    IF S = {} THEN << >>
    ELSE LET m == CHOOSE x \in S : \A y \in S : x <= y
         IN << m >> \o Ascending(S \ {m})

\* the elements of a sequence that belong to S, in the sequence's order
RECURSIVE Restrict(_, _)
Restrict(order, S) ==
    IF order = << >> THEN << >>
    ELSE (IF Head(order) \in S THEN << Head(order) >> ELSE << >>)
           \o Restrict(Tail(order), S)

StatusesOf(vendor, indices) ==
    [ k \in 1 .. Len(indices) |-> DeviceStatus(vendor, indices[k]) ]

\* NvidiaBackend::detect_gpus: device_count may fail (the call then returns
\* before the device map is touched); otherwise every index whose handle and
\* status can be read is reported and the device map is replaced by them.
NvidiaDetectGpus(h, devices) ==
    IF h.nvml_fails
    THEN [ result |-> DeviceError, devices |-> devices ]
    ELSE [ result  |-> OkWith(StatusesOf("NVIDIA", Ascending(h.nvidia_visible))),
           devices |-> h.nvidia_visible ]

\* AmdBackend::detect_gpus: walks the device map filled by init; a device
\* whose status cannot be read is omitted; never fails.
AmdDetectGpus(h, devices, order) ==
    [ result  |-> OkWith(StatusesOf("AMD", Restrict(order, devices \cap h.amd_readable))),
      devices |-> devices ]

\* get_gpu_status of either backend: GpuNotFound unless the index is in the
\* backend's device map, else the outcome of reading the device.
BackendGetGpuStatus(vendor, devices, h, index) ==
    IF index \notin devices THEN GpuNotFound(index)
    ELSE IF index \in (IF vendor = "NVIDIA" THEN h.nvidia_visible ELSE h.amd_readable)
         THEN OkWith(DeviceStatus(vendor, index))
         ELSE DeviceError

\* apply_config of either backend: GpuNotFound unless the index is in the
\* backend's device map; io_ok says whether every device write succeeded.
BackendApplyConfig(vendor, devices, index, config, io_ok) ==
    IF index \notin devices THEN GpuNotFound(index)
    ELSE IF io_ok THEN Ok ELSE DeviceError

\* supports_gpu_switching: both backends answer true.
SupportsGpuSwitching(vendor) == TRUE

\* switch_gpu of either backend: not implemented, OperationNotSupported.
BackendSwitchGpu(vendor, from_index, to_index) == OperationNotSupported

\* ---------------------------------------------------------------------
\* GpuManager (lib.rs)
\* ---------------------------------------------------------------------

DevicesOf(vendor) == IF vendor = "NVIDIA" THEN nvidia_devices ELSE amd_devices

\* backend.detect_gpus() of the backend registered for `vendor`
BackendDetectGpus(vendor) ==
    IF vendor = "NVIDIA"
    THEN NvidiaDetectGpus(hw, nvidia_devices)
    ELSE AmdDetectGpus(hw, amd_devices, amd_order)

\* detect_gpus giving up what it collected when a backend fails.
AppendDetectedOrAbort(all_gpus, result) ==
    IF result.ok THEN all_gpus \o result.value ELSE << >>

\* One arm of the match in detect_gpus: Ok appends, Err is only logged.
AppendDetected(all_gpus, result) ==
    IF result.ok THEN all_gpus \o result.value ELSE all_gpus

\* for (vendor, backend) in &self.backends { ... }
RECURSIVE CollectGpus(_, _)
CollectGpus(order, all_gpus) ==
    IF order = << >> THEN all_gpus
    ELSE CollectGpus(Tail(order),
                     AppendDetected(all_gpus, BackendDetectGpus(Head(order)).result))

\* The cache extended with the new list instead of replaced by it.
MergeCache(cached, all_gpus) == cached \o all_gpus

\* *gpus_lock = all_gpus.clone()
ReplaceCache(cached, all_gpus) == all_gpus

\* some cached device carries gpu_index
IndexCached(cached, gpu_index) ==
    \E k \in 1 .. Len(cached) : cached[k].index = gpu_index

\* A lookup that falls back to the first cached device.
FindByIndexOrFirst(cached, gpu_index) ==
    IF IndexCached(cached, gpu_index)
    THEN CHOOSE k \in 1 .. Len(cached) :
             /\ cached[k].index = gpu_index
             /\ \A j \in 1 .. (k - 1) : cached[j].index # gpu_index
    ELSE IF cached # << >> THEN 1 ELSE 0

\* gpus.iter().find(|g| g.index == gpu_index): position of the first match, 0 if none
FindByIndex(cached, gpu_index) ==
    IF \E k \in 1 .. Len(cached) : cached[k].index = gpu_index
    THEN CHOOSE k \in 1 .. Len(cached) :
             /\ cached[k].index = gpu_index
             /\ \A j \in 1 .. (k - 1) : cached[j].index # gpu_index
    ELSE 0

BackendCall(vendor, op, index, result) ==
    [ vendor |-> vendor, op |-> op, index |-> index, result |-> result ]

\* The backend's answer dropped (let _ = ...).
ApplyConfigResultSwallowed(backend_result) == Ok

\* What apply_config returns once the backend has answered: `?` hands an
\* error on, success falls through to Ok(()).
ApplyConfigResult(backend_result) ==
    IF backend_result.ok THEN Ok ELSE backend_result

\* The event sent whatever the backend answered.
SwitchEventsAlways(backend_result, from_index, to_index, reason) ==
    << [ type     |-> "GpuSwitched",
         from_gpu |-> from_index,
         to_gpu   |-> to_index,
         reason   |-> reason ] >>

\* The events switch_gpu sends once the backend has answered: `?` returns
\* before the send on an error.
SwitchEvents(backend_result, from_index, to_index, reason) ==
    IF backend_result.ok
    THEN << [ type     |-> "GpuSwitched",
              from_gpu |-> from_index,
              to_gpu   |-> to_index,
              reason   |-> reason ] >>
    ELSE << >>

\* the orders in which a HashMap holding the keys S may be iterated
Orders(S) ==
    { p \in [ 1 .. Cardinality(S) -> S ] :
        \A a, b \in 1 .. Cardinality(S) : a # b => p[a] # p[b] }

HardwareStates ==
    [ nvml_fails     : BOOLEAN,
      nvidia_visible : SUBSET DeviceIndices,
      amd_readable   : SUBSET DeviceIndices ]

MgrIdleCall == [ op |-> "none" ]

\* RwLock::new: nobody holds the lock, nobody waits for it
FreeLock == [ readers |-> {}, writer |-> None, waiters |-> << >> ]

\* No call in progress.
ConAtRest ==
    /\ tasks = << >>
    /\ gpus_lock = FreeLock
    /\ devices_lock = [ v \in Vendors |-> FreeLock ]
    /\ backend_call = [ op |-> "none" ]

\* GpuManager::new: a backend is registered when its init succeeds. The
\* NVIDIA map starts empty; AmdBackend::init fills the AMD map with the
\* cards it finds, numbered from 0, and fails when it finds none.
MgrInit ==
    /\ \E nvidia_ok \in BOOLEAN, amd_found \in 0 .. Cardinality(DeviceIndices) :
          /\ backends = (IF nvidia_ok THEN {"NVIDIA"} ELSE {})
                          \cup (IF amd_found > 0 THEN {"AMD"} ELSE {})
          /\ amd_devices = 0 .. (amd_found - 1)
    /\ backend_order \in Orders(backends)
    /\ amd_order \in Orders(amd_devices)
    /\ nvidia_devices = {}
    /\ gpus = << >>
    /\ monitoring_enabled = FALSE
    /\ hw \in HardwareStates
    /\ ("NVIDIA" \notin backends => ~hw.nvml_fails /\ hw.nvidia_visible = {})
    /\ hw.amd_readable \subseteq amd_devices
    /\ mgr_receivers = 0
    /\ mgr_call = MgrIdleCall
    /\ hw_changed = TRUE
    /\ enabled_intervals = 0
    /\ loop_polls = 0
    /\ ConAtRest

\* GpuConfig presets handed to apply_config (GpuConfig::balanced)
Configs ==
    { [ power_mode |-> "Balanced", power_limit |-> None, fan_curve |-> None ] }

\* Indices a caller may pass: every backend index and one no backend uses.
CallerIndices == DeviceIndices \cup {2}

Reasons == { "user request" }

\* pub async fn detect_gpus
DetectGpus ==
    LET all_gpus == CollectGpus(backend_order, << >>)
        calls    == [ k \in 1 .. Len(backend_order) |->
                        BackendCall(backend_order[k], "detect_gpus", 0,
                                    BackendDetectGpus(backend_order[k]).result) ]
    IN /\ gpus' = ReplaceCache(gpus, all_gpus)
       /\ nvidia_devices' = IF "NVIDIA" \in backends
                            THEN BackendDetectGpus("NVIDIA").devices
                            ELSE nvidia_devices
       /\ hw_changed' = FALSE
       /\ mgr_call' = [ op       |-> "detect_gpus",
                        result   |-> OkWith(all_gpus),
                        calls    |-> calls,
                        events   |-> << >>,
                        pre_gpus |-> gpus,
                        repeated |-> ~hw_changed ]
       /\ UNCHANGED << backends, backend_order, monitoring_enabled, amd_devices,
                       amd_order, hw, mgr_receivers, enabled_intervals, loop_polls >>

\* pub async fn get_all_gpu_status
GetAllGpuStatus ==
    LET routed == { k \in 1 .. Len(gpus) : gpus[k].vendor \in backends }
        calls  == [ k \in 1 .. Len(gpus) |->
                      BackendCall(gpus[k].vendor, "get_gpu_status", gpus[k].index,
                                  BackendGetGpuStatus(gpus[k].vendor,
                                                      DevicesOf(gpus[k].vendor),
                                                      hw, gpus[k].index)) ]
        made   == Restrict([ k \in 1 .. Len(gpus) |-> k ], routed)
        done   == [ j \in 1 .. Len(made) |-> calls[made[j]] ]
        read   == { j \in 1 .. Len(done) : done[j].result.ok }
        got    == Restrict([ j \in 1 .. Len(done) |-> j ], read)
    IN /\ mgr_call' = [ op       |-> "get_all_gpu_status",
                        result   |-> OkWith([ j \in 1 .. Len(got) |->
                                                done[got[j]].result.value ]),
                        calls    |-> done,
                        events   |-> << >>,
                        pre_gpus |-> gpus ]
       /\ UNCHANGED << backends, backend_order, gpus, monitoring_enabled,
                       nvidia_devices, amd_devices, amd_order, hw, mgr_receivers,
                       hw_changed, enabled_intervals, loop_polls >>

\* pub async fn apply_config; target is the cached device the caller means
\* to configure (a position of the cache, 0 when the caller made the index up).
ApplyConfig(gpu_index, config, io_ok, target) ==
    LET found == FindByIndex(gpus, gpu_index)
        gpu   == gpus[found]
        reply == BackendApplyConfig(gpu.vendor, DevicesOf(gpu.vendor),
                                    gpu_index, config, io_ok)
        outcome ==
            IF found = 0
            THEN [ result |-> GpuNotFound(gpu_index), calls |-> << >> ]
            ELSE IF gpu.vendor \in backends
                 THEN [ result |-> ApplyConfigResult(reply),
                        calls  |-> << BackendCall(gpu.vendor, "apply_config",
                                                  gpu_index, reply) >> ]
                 ELSE [ result |-> BackendNotAvailable(gpu.vendor), calls |-> << >> ]
    IN /\ mgr_call' = [ op        |-> "apply_config",
                        gpu_index |-> gpu_index,
                        target    |-> target,
                        result    |-> outcome.result,
                        calls     |-> outcome.calls,
                        events    |-> << >>,
                        pre_gpus  |-> gpus ]
       /\ UNCHANGED << backends, backend_order, gpus, monitoring_enabled,
                       nvidia_devices, amd_devices, amd_order, hw, mgr_receivers,
                       hw_changed, enabled_intervals, loop_polls >>

\* pub async fn switch_gpu
SwitchGpu(from_index, to_index, reason, target) ==
    LET from_pos == FindByIndex(gpus, from_index)
        to_pos   == FindByIndex(gpus, to_index)
        from_gpu == gpus[from_pos]
        reply    == BackendSwitchGpu(from_gpu.vendor, from_index, to_index)
        outcome ==
            IF from_pos = 0
            THEN [ result |-> GpuNotFound(from_index), calls |-> << >>, events |-> << >> ]
            ELSE IF to_pos = 0
            THEN [ result |-> GpuNotFound(to_index), calls |-> << >>, events |-> << >> ]
            ELSE IF from_gpu.vendor \notin backends
            THEN [ result |-> Ok, calls |-> << >>, events |-> << >> ]
            ELSE IF ~SupportsGpuSwitching(from_gpu.vendor)
            THEN [ result |-> OperationNotSupported, calls |-> << >>, events |-> << >> ]
            ELSE [ result |-> ApplyConfigResult(reply),
                   calls  |-> << BackendCall(from_gpu.vendor, "switch_gpu",
                                             from_index, reply) >>,
                   events |-> SwitchEvents(reply, from_index, to_index, reason) ]
    IN /\ mgr_call' = [ op         |-> "switch_gpu",
                        from_index |-> from_index,
                        to_index   |-> to_index,
                        reason     |-> reason,
                        target     |-> target,
                        result     |-> outcome.result,
                        calls      |-> outcome.calls,
                        events     |-> outcome.events,
                        pre_gpus   |-> gpus ]
       /\ UNCHANGED << backends, backend_order, gpus, monitoring_enabled,
                       nvidia_devices, amd_devices, amd_order, hw, mgr_receivers,
                       hw_changed, enabled_intervals, loop_polls >>

\* pub async fn start_monitoring: sets the flag, spawns nothing.
StartMonitoring ==
    /\ monitoring_enabled' = TRUE
    /\ enabled_intervals' = 0
    /\ mgr_call' = [ op |-> "start_monitoring", result |-> Ok, calls |-> << >>,
                     events |-> << >>, pre_gpus |-> gpus ]
    /\ UNCHANGED << backends, backend_order, gpus, nvidia_devices, amd_devices,
                    amd_order, hw, mgr_receivers, hw_changed, loop_polls >>

\* pub async fn stop_monitoring
StopMonitoring ==
    /\ monitoring_enabled' = FALSE
    /\ mgr_call' = [ op |-> "stop_monitoring", result |-> Ok, calls |-> << >>,
                     events |-> << >>, pre_gpus |-> gpus ]
    /\ UNCHANGED << backends, backend_order, gpus, nvidia_devices, amd_devices,
                    amd_order, hw, mgr_receivers, hw_changed,
                    enabled_intervals, loop_polls >>

\* pub fn subscribe_events
SubscribeEvents ==
    /\ mgr_receivers + 1 \in ReceiverCounts
    /\ mgr_receivers' = mgr_receivers + 1
    /\ UNCHANGED << backends, backend_order, gpus, monitoring_enabled,
                    nvidia_devices, amd_devices, amd_order, hw, mgr_call,
                    hw_changed, enabled_intervals, loop_polls >>

\* A subscriber drops its receiver.
DropSubscriber ==
    /\ mgr_receivers > 0
    /\ mgr_receivers' = mgr_receivers - 1
    /\ UNCHANGED << backends, backend_order, gpus, monitoring_enabled,
                    nvidia_devices, amd_devices, amd_order, hw, mgr_call,
                    hw_changed, enabled_intervals, loop_polls >>

Toggle(S, x) == IF x \in S THEN S \ {x} ELSE S \cup {x}

\* The host changes, as far as a registered backend can tell: the NVIDIA
\* driver library starts or stops answering, a device appears, disappears
\* or stops answering.
HardwareChange ==
    /\ \/ "NVIDIA" \in backends /\ hw' = [ hw EXCEPT !.nvml_fails = ~@ ]
       \/ \E i \in DeviceIndices :
             "NVIDIA" \in backends /\ hw' = [ hw EXCEPT !.nvidia_visible = Toggle(@, i) ]
       \/ \E i \in amd_devices :
             hw' = [ hw EXCEPT !.amd_readable = Toggle(@, i) ]
    /\ hw_changed' = TRUE
    /\ UNCHANGED << backends, backend_order, gpus, monitoring_enabled,
                    nvidia_devices, amd_devices, amd_order, mgr_receivers,
                    mgr_call, enabled_intervals, loop_polls >>

\* One polling interval (MonitoringConfig.interval) goes by with the flag set.
IntervalElapses ==
    /\ monitoring_enabled
    /\ enabled_intervals < MaxIntervals
    /\ enabled_intervals' = enabled_intervals + 1
    /\ UNCHANGED << backends, backend_order, gpus, monitoring_enabled,
                    nvidia_devices, amd_devices, amd_order, hw, mgr_receivers,
                    mgr_call, hw_changed, loop_polls >>

\* ---------------------------------------------------------------------
\* Functions taken on their own
\* ---------------------------------------------------------------------

NoCall == [ op |-> "none" ]
NotCalled == [ done |-> FALSE ]

\* Readings for the power and memory rules: none, ordinary ones around the
\* thresholds, and the largest power_draw whose hundredfold fits a u32
\* (42949672 * 100 = 2^32 - 96) with the first that does not.
PowerDraws == {0, 270, 42949672, 42949673}
PowerLimits == {0, 1, 300}
MemoryUseds == {0, 7, 42949673}
MemoryTotals == {0, 1, 8}

AlertRuleCalls ==
    { [ op              |-> "check_alerts",
        status          |-> MkStatus("NVIDIA", 0, 60, pd, pl, mu, mt, 50),
        cfg             |-> [ DefaultAlertConfig EXCEPT
                                !.enable_power_alerts = ep,
                                !.enable_memory_alerts = em ],
        overflow_checks |-> oc ] :
      pd \in PowerDraws, pl \in PowerLimits, mu \in MemoryUseds,
      mt \in MemoryTotals, ep \in BOOLEAN, em \in BOOLEAN, oc \in BOOLEAN }

\* check_alerts on a device without history.
CallCheckAlerts ==
    /\ fn_args.op = "check_alerts"
    /\ ~fn_result.done
    /\ fn_result' = CheckAlertsOutcome(0, fn_args.status, << >>, fn_args.cfg,
                                       now, fn_args.overflow_checks)
    /\ UNCHANGED << monVars, mgrVars, chanVars, conVars, fn_args >>

\* Efficiency scores. The floating-point values are carried as exact
\* fractions << numerator, denominator >> with a positive denominator.

\* pub fn calculate_efficiency_score, halving the sum of the three terms
EfficiencyScoreHalved(status) ==
    LET limit == status.power_limit
        temp  == IF status.temperature < 90 THEN status.temperature ELSE 90
    IN << (9000 * (limit - status.power_draw))
            + (100 * limit * (90 - temp))
            + (90 * limit * status.utilization_gpu),
          2 * 9000 * limit >>

\* pub fn calculate_efficiency_score (lib.rs): the mean of
\* 1 - power_draw / power_limit, 1 - min(temperature / 90, 1) and
\* utilization_gpu / 100, over the common denominator 9000 * power_limit.
EfficiencyScore(status) ==
    LET limit == status.power_limit
        temp  == IF status.temperature < 90 THEN status.temperature ELSE 90
    IN << (9000 * (limit - status.power_draw))
            + (100 * limit * (90 - temp))
            + (90 * limit * status.utilization_gpu),
          3 * 9000 * limit >>

RECURSIVE SumOf(_, _)
SumOf(metrics, field) ==
    IF metrics = << >> THEN 0
    ELSE metrics[1][field] + SumOf(Tail(metrics), field)

\* GpuMonitor::calculate_efficiency_score (monitor.rs): 0.0 for an empty
\* window, else the mean of avg_utilization / 100,
\* (100 - min(avg_temperature, 100)) / 100 and (300 - min(avg_power, 300)) / 300,
\* over the common denominator 300 * len.
WindowEfficiencyScore(metrics) ==
    IF metrics = << >> THEN << 0, 1 >>
    ELSE LET n == Len(metrics)
             temp  == SumOf(metrics, "temperature")
             power == SumOf(metrics, "power_draw")
         IN << (3 * SumOf(metrics, "utilization_gpu"))
                 + (3 * ((100 * n) - (IF temp < 100 * n THEN temp ELSE 100 * n)))
                 + ((300 * n) - (IF power < 300 * n THEN power ELSE 300 * n)),
               900 * n >>

\* Statuses in the ranges of test_efficiency_score_bounds: the ends and the
\* middle of power_draw in [50, 400), power_limit in [400, 500), temperature
\* in [30, 90) and utilization in [0, 100).
ScoreStatuses ==
    { MkStatus("NVIDIA", 0, t, pd, pl, 1, 8, u) :
        t \in {30, 60, 89}, pd \in {50, 225, 399}, pl \in {400, 450, 499},
        u \in {0, 50, 99} }

\* Points for a window: utilization in 0..100, any temperature and power.
ScorePoints ==
    { MetricsPointFrom(MkStatus("NVIDIA", 0, t, pd, 300, 1, 8, u), 1000) :
        t \in {0, 60, 120}, pd \in {0, 150, 400}, u \in {0, 50, 100} }

SeqsUpTo(S, n) == UNION { [ 1 .. k -> S ] : k \in 0 .. n }

EfficiencyCalls ==
    { [ op |-> "calculate_efficiency_score", status |-> status ] :
        status \in ScoreStatuses }
    \cup
    { [ op |-> "window_efficiency_score", metrics |-> metrics ] :
        metrics \in SeqsUpTo(ScorePoints, MaxWindow) }

CallEfficiencyScore ==
    /\ fn_args.op = "calculate_efficiency_score"
    /\ ~fn_result.done
    /\ fn_result' = [ done |-> TRUE, score |-> EfficiencyScore(fn_args.status) ]
    /\ UNCHANGED << monVars, mgrVars, chanVars, conVars, fn_args >>

CallWindowEfficiencyScore ==
    /\ fn_args.op = "window_efficiency_score"
    /\ ~fn_result.done
    /\ fn_result' = [ done |-> TRUE, score |-> WindowEfficiencyScore(fn_args.metrics) ]
    /\ UNCHANGED << monVars, mgrVars, chanVars, conVars, fn_args >>

\* Anomaly detection. Averages are compared through sums, the f64 values
\* being carried exactly.

RECURSIVE Filter(_, _)
\* history.iter().filter(|point| point.timestamp >= threshold_time)
Filter(history, threshold_time) ==
    IF history = << >> THEN << >>
    ELSE (IF Head(history).timestamp >= threshold_time THEN << Head(history) >> ELSE << >>)
           \o Filter(Tail(history), threshold_time)

MaxOf(metrics, field) ==
    CHOOSE v \in { metrics[k][field] : k \in 1 .. Len(metrics) } :
        \A k \in 1 .. Len(metrics) : metrics[k][field] <= v

MinOf(metrics, field) ==
    CHOOSE v \in { metrics[k][field] : k \in 1 .. Len(metrics) } :
        \A k \in 1 .. Len(metrics) : metrics[k][field] >= v

Anomaly(gpu_index, anomaly_type, severity) ==
    [ gpu_index |-> gpu_index, anomaly_type |-> anomaly_type, severity |-> severity ]

\* the spike test with the 85 degree bound included
DetectTemperatureSpikeInclusive(metrics, gpu_index) ==
    LET n        == Len(metrics)
        max_temp == MaxOf(metrics, "temperature")
    IN IF max_temp * n > SumOf(metrics, "temperature") + (20 * n) /\ max_temp >= 85
       THEN << Anomaly(gpu_index, "TemperatureSpike",
                       IF max_temp > 95 THEN "Critical"
                       ELSE IF max_temp > 90 THEN "High" ELSE "Medium") >>
       ELSE << >>

\* fn detect_temperature_spike: max_temp > avg_temp + 20 and max_temp > 85
DetectTemperatureSpike(metrics, gpu_index) ==
    LET n        == Len(metrics)
        max_temp == MaxOf(metrics, "temperature")
    IN IF max_temp * n > SumOf(metrics, "temperature") + (20 * n) /\ max_temp > 85
       THEN << Anomaly(gpu_index, "TemperatureSpike",
                       IF max_temp > 95 THEN "Critical"
                       ELSE IF max_temp > 90 THEN "High" ELSE "Medium") >>
       ELSE << >>

\* fn detect_power_drop: the last 5 points against the first 10
DetectPowerDrop(metrics, gpu_index) ==
    IF Len(metrics) < 20 THEN << >>
    ELSE LET recent   == SumOf(SubSeq(metrics, Len(metrics) - 4, Len(metrics)), "power_draw")
             baseline == SumOf(SubSeq(metrics, 1, 10), "power_draw")
         IN IF baseline > 1000 /\ 4 * recent < baseline
            THEN << Anomaly(gpu_index, "PowerDrop", "Medium") >>
            ELSE << >>

\* fn detect_utilization_stuck: the last 10 points all at 0 or all at 100
DetectUtilizationStuck(metrics, gpu_index) ==
    IF Len(metrics) < 10 THEN << >>
    ELSE LET first_util == metrics[Len(metrics)].utilization_gpu
             all_same   == \A k \in Len(metrics) - 9 .. Len(metrics) :
                               metrics[k].utilization_gpu = first_util
         IN IF all_same /\ (first_util = 0 \/ first_util = 100)
            THEN << Anomaly(gpu_index, "UtilizationStuck", "Medium") >>
            ELSE << >>

\* fn detect_clock_drift: avg_clock > 1000 and min_clock < 0.7 * avg_clock
DetectClockDrift(metrics, gpu_index) ==
    IF Len(metrics) < 20 THEN << >>
    ELSE LET n   == Len(metrics)
             sum == SumOf(metrics, "clock_graphics")
         IN IF sum > 1000 * n /\ 10 * n * MinOf(metrics, "clock_graphics") < 7 * sum
            THEN << Anomaly(gpu_index, "ClockDrift", "Medium") >>
            ELSE << >>

\* the detectors run on whatever the lookback window holds
DetectAnomaliesNoMinimum(history_map, gpu_index, lookback_minutes, t) ==
    IF gpu_index \notin DOMAIN history_map THEN << >>
    ELSE LET recent_metrics == Filter(history_map[gpu_index], t - (lookback_minutes * 60))
         IN IF Len(recent_metrics) < 1 THEN << >>
            ELSE DetectTemperatureSpike(recent_metrics, gpu_index)
                   \o DetectPowerDrop(recent_metrics, gpu_index)
                   \o DetectUtilizationStuck(recent_metrics, gpu_index)
                   \o DetectClockDrift(recent_metrics, gpu_index)

\* pub fn detect_anomalies
DetectAnomalies(history_map, gpu_index, lookback_minutes, t) ==
    IF gpu_index \notin DOMAIN history_map THEN << >>
    ELSE LET recent_metrics == Filter(history_map[gpu_index], t - (lookback_minutes * 60))
         IN IF Len(recent_metrics) < 10 THEN << >>
            ELSE DetectTemperatureSpike(recent_metrics, gpu_index)
                   \o DetectPowerDrop(recent_metrics, gpu_index)
                   \o DetectUtilizationStuck(recent_metrics, gpu_index)
                   \o DetectClockDrift(recent_metrics, gpu_index)

\* n copies of a point
Repeat(point, n) == [ k \in 1 .. n |-> point ]

\* Histories of device 0 for anomaly detection, read at time 1000: points
\* recorded 700 s ago, 100 s ago and just now, all alike (ordinary load or
\* pinned at 100 %, at 60 or 70 degrees), the newest possibly hotter than
\* the rest.
SpikeTemperatures == {85, 86, 91, 96}

AnomalyHistories ==
    { LET status == MkStatus("NVIDIA", 0, temp, 100, 300, 1, 8, util)
          spike  == MkStatus("NVIDIA", 0, spiked[1], 100, 300, 1, 8, util)
          body   == Repeat(MetricsPointFrom(status, 300), old)
                      \o Repeat(MetricsPointFrom(status, 900), mid)
                      \o Repeat(MetricsPointFrom(status, 1000), new)
      IN IF spiked # None THEN Append(body, MetricsPointFrom(spike, 1000)) ELSE body :
      util \in {50, 100}, temp \in {60, 70}, old \in {0, 1, 2}, mid \in {0, 5, 9, 10},
      new \in {0, 8, 9, 10},
      spiked \in {None} \cup { Some(s) : s \in SpikeTemperatures } }

AnomalyCalls ==
    { [ op |-> "detect_anomalies", gpu_index |-> i, lookback_minutes |-> lookback ] :
        i \in MonitorDevices, lookback \in {1, 10} }

CallDetectAnomalies ==
    /\ fn_args.op = "detect_anomalies"
    /\ ~fn_result.done
    /\ fn_result' = [ done      |-> TRUE,
                      anomalies |-> DetectAnomalies(metrics_history, fn_args.gpu_index,
                                                    fn_args.lookback_minutes, now) ]
    /\ UNCHANGED << monVars, mgrVars, chanVars, conVars, fn_args >>

\* Trend analysis. The efficiency scores are carried as exact fractions.

\* a - b > 1/20 for two fractions with positive denominators
ExceedsBy5Percent(a, b) == 20 * ((a[1] * b[2]) - (b[1] * a[2])) > a[2] * b[2]

\* determine_trend_direction asking for more than 5 points
DetermineTrendDirectionOverFive(metrics) ==
    IF Len(metrics) <= 5 THEN "Unknown"
    ELSE LET half              == Len(metrics) \div 2
             first_efficiency  == WindowEfficiencyScore(SubSeq(metrics, 1, half))
             second_efficiency == WindowEfficiencyScore(SubSeq(metrics, half + 1, Len(metrics)))
         IN IF ExceedsBy5Percent(second_efficiency, first_efficiency) THEN "Improving"
            ELSE IF ExceedsBy5Percent(first_efficiency, second_efficiency) THEN "Degrading"
            ELSE "Stable"

\* fn determine_trend_direction
DetermineTrendDirection(metrics) ==
    IF Len(metrics) < 5 THEN "Unknown"
    ELSE LET half              == Len(metrics) \div 2
             first_efficiency  == WindowEfficiencyScore(SubSeq(metrics, 1, half))
             second_efficiency == WindowEfficiencyScore(SubSeq(metrics, half + 1, Len(metrics)))
         IN IF ExceedsBy5Percent(second_efficiency, first_efficiency) THEN "Improving"
            ELSE IF ExceedsBy5Percent(first_efficiency, second_efficiency) THEN "Degrading"
            ELSE "Stable"

\* pub fn analyze_performance_trend; the averages are << sum, count >>
AnalyzePerformanceTrend(history_map, gpu_index, period_minutes, t) ==
    IF gpu_index \notin DOMAIN history_map THEN None
    ELSE LET recent_metrics == Filter(history_map[gpu_index], t - (period_minutes * 60))
             count          == Len(recent_metrics)
         IN IF recent_metrics = << >> THEN None
            ELSE Some([ gpu_index           |-> gpu_index,
                        period_minutes      |-> period_minutes,
                        average_temperature |-> << SumOf(recent_metrics, "temperature"), count >>,
                        peak_temperature    |-> MaxOf(recent_metrics, "temperature"),
                        average_utilization |-> << SumOf(recent_metrics, "utilization_gpu"), count >>,
                        peak_utilization    |-> MaxOf(recent_metrics, "utilization_gpu"),
                        average_power       |-> << SumOf(recent_metrics, "power_draw"), count >>,
                        peak_power          |-> MaxOf(recent_metrics, "power_draw"),
                        efficiency_score    |-> WindowEfficiencyScore(recent_metrics),
                        trend_direction     |-> DetermineTrendDirection(recent_metrics) ])

\* Loads of one device: the same temperature and power at 50, 64 or 66 %
\* utilization (14 points of utilization are 4.7 % of efficiency, 16 are
\* 5.3 %).
TrendStatuses == { MkStatus("NVIDIA", 0, 60, 150, 300, 1, 8, u) : u \in {50, 64, 66} }

\* Histories of device 0 read at time 1000 with a window of one minute: at
\* most one point from 700 s ago, then points of the last minute.
TrendHistories ==
    { Repeat(MetricsPointFrom(old, 300), olds)
        \o [ k \in 1 .. Len(recent) |-> MetricsPointFrom(recent[k], 940 + (10 * k)) ] :
      old \in {MkStatus("NVIDIA", 0, 60, 150, 300, 1, 8, 50)}, olds \in {0, 1},
      recent \in SeqsUpTo(TrendStatuses, MaxTrendPoints) }

TrendCalls ==
    { [ op |-> "analyze_performance_trend", gpu_index |-> i, period_minutes |-> 1 ] :
        i \in MonitorDevices }

CallAnalyzePerformanceTrend ==
    /\ fn_args.op = "analyze_performance_trend"
    /\ ~fn_result.done
    /\ fn_result' = [ done  |-> TRUE,
                      trend |-> AnalyzePerformanceTrend(metrics_history, fn_args.gpu_index,
                                                        fn_args.period_minutes, now) ]
    /\ UNCHANGED << monVars, mgrVars, chanVars, conVars, fn_args >>

\* Fan curves (lib.rs). A control point is << temperature, speed >>.

\* FanCurve::aggressive
FanCurveAggressive == << <<30, 20>>, <<50, 40>>, <<70, 60>>, <<85, 100>> >>

\* FanCurve::quiet
FanCurveQuiet == << <<40, 0>>, <<60, 30>>, <<80, 70>>, <<90, 100>> >>

\* speed1 + (speed_diff as f32 * temp_ratio) as u32 on one window: the cast
\* to u32 saturates, so a negative product (a falling segment) and the NaN
\* of a zero-width window (0.0 / 0.0) both become 0. The product is carried
\* exactly and truncated.
Interpolate(temp1, speed1, temp2, speed2, temperature) ==
    IF temp2 = temp1 \/ speed2 < speed1 THEN speed1
    ELSE speed1 + (((speed2 - speed1) * (temperature - temp1)) \div (temp2 - temp1))

\* the first window (pair of consecutive points) that brackets the
\* temperature, from window k on; 0 if there is none
RECURSIVE FirstWindow(_, _, _)
FirstWindow(points, temperature, k) ==
    IF k >= Len(points) THEN 0
    ELSE IF temperature >= points[k][1] /\ temperature <= points[k + 1][1] THEN k
    ELSE FirstWindow(points, temperature, k + 1)

\* calculate_fan_speed clamping to the first speed on both sides of the curve
CalculateFanSpeedFirstClamp(points, temperature) ==
    IF points = << >> THEN 50
    ELSE LET k == FirstWindow(points, temperature, 1)
         IN IF k # 0
            THEN Interpolate(points[k][1], points[k][2],
                             points[k + 1][1], points[k + 1][2], temperature)
            ELSE points[1][2]

\* pub fn calculate_fan_speed
CalculateFanSpeed(points, temperature) ==
    IF points = << >> THEN 50
    ELSE LET k == FirstWindow(points, temperature, 1)
         IN IF k # 0
            THEN Interpolate(points[k][1], points[k][2],
                             points[k + 1][1], points[k + 1][2], temperature)
            ELSE IF temperature < points[1][1]
                 THEN points[1][2]
                 ELSE points[Len(points)][2]

\* Curves: the two presets and every curve of up to MaxCurvePoints points
\* over three temperatures and three speeds (sorted or not, rising or
\* falling, with or without repeated temperatures).
FanCurves ==
    {FanCurveAggressive, FanCurveQuiet}
      \cup SeqsUpTo({30, 50, 70} \X {20, 40, 100}, MaxCurvePoints)

\* Temperatures asked of a curve: on, between and outside the control points.
FanTemperatures == {25, 30, 40, 50, 60, 70, 85, 90}

FanSpeedCalls ==
    { [ op |-> "calculate_fan_speed", points |-> points, temperature |-> t ] :
        points \in FanCurves, t \in FanTemperatures }

CallCalculateFanSpeed ==
    /\ fn_args.op = "calculate_fan_speed"
    /\ ~fn_result.done
    /\ fn_result' = [ done  |-> TRUE,
                      speed |-> CalculateFanSpeed(fn_args.points, fn_args.temperature) ]
    /\ UNCHANGED << monVars, mgrVars, chanVars, conVars, fn_args >>

\* Applying a configuration to one device (nvidia.rs, amd.rs). A call in
\* progress is [ device, result, steps, writes ]: the device's settings, the
\* result so far, the sub-steps of apply_config that have run, each with its
\* outcome, and the driver or sysfs writes that went through. faults is the
\* set of driver or sysfs operations that fail.

PowerModes == {"MaxPerformance", "Balanced", "PowerSaver", "Custom", "Auto"}

Failed(call, error) == [ call EXCEPT !.result = error ]

Logged(before, after, step) ==
    IF ~before.result.ok THEN before
    ELSE [ after EXCEPT !.steps = Append(before.steps,
                                         [ step |-> step, result |-> after.result ]) ]

\* device.set_power_management_limit(milliwatts)
NvSetPowerLimit(call, milliwatts, faults) ==
    IF ~call.result.ok THEN call
    ELSE IF "set_power_limit" \in faults THEN Failed(call, DeviceError)
    ELSE [ call EXCEPT !.device.power_limit = milliwatts,
                       !.writes = Append(@, "set_power_limit") ]

\* device.set_persistent(enabled)
NvSetPersistent(call, enabled, faults) ==
    IF ~call.result.ok THEN call
    ELSE IF "set_persistent" \in faults THEN Failed(call, DeviceError)
    ELSE [ call EXCEPT !.device.persistent = enabled,
                       !.writes = Append(@, "set_persistent") ]

\* device.set_auto_boosted_clocks(enabled)
NvSetAutoBoost(call, enabled, faults) ==
    IF ~call.result.ok THEN call
    ELSE IF "set_auto_boost" \in faults THEN Failed(call, DeviceError)
    ELSE [ call EXCEPT !.device.auto_boost = enabled,
                       !.writes = Append(@, "set_auto_boost") ]

\* the limit a power mode sets when the constraints can be read
\* (if let Ok(constraints) = ...): nothing is set otherwise
NvSetModeLimit(call, percent, faults) ==
    IF "limit_constraints" \in faults THEN call
    ELSE NvSetPowerLimit(call, (call.device.max_limit * percent) \div 100, faults)

\* NvidiaBackend::set_max_performance
NvSetMaxPerformance(call, faults) ==
    NvSetAutoBoost(
        NvSetPersistent(
            IF "limit_constraints" \in faults THEN call
            ELSE NvSetPowerLimit(call, call.device.max_limit, faults),
            TRUE, faults),
        TRUE, faults)

\* NvidiaBackend::set_balanced
NvSetBalanced(call, faults) == NvSetModeLimit(call, 90, faults)

\* NvidiaBackend::set_power_saver
NvSetPowerSaver(call, faults) ==
    NvSetAutoBoost(NvSetModeLimit(call, 70, faults), FALSE, faults)

\* NvidiaBackend::apply_power_mode
NvApplyPowerMode(call, mode, faults) ==
    CASE mode = "MaxPerformance" -> NvSetMaxPerformance(call, faults)
      [] mode = "Balanced"       -> NvSetBalanced(call, faults)
      [] mode = "PowerSaver"     -> NvSetPowerSaver(call, faults)
      [] mode = "Custom"         -> call
      [] mode = "Auto"           ->
            IF "utilization_rates" \in faults THEN Failed(call, DeviceError)
            ELSE IF call.device.utilization > 80 THEN NvSetMaxPerformance(call, faults)
            ELSE IF call.device.utilization < 20 THEN NvSetPowerSaver(call, faults)
            ELSE NvSetBalanced(call, faults)

\* NvidiaBackend::apply_fan_curve: reads the temperature, computes the
\* target speed and gives up: no device setting is written.
NvApplyFanCurve(call, curve, faults) ==
    IF ~call.result.ok THEN call
    ELSE IF "temperature" \in faults THEN Failed(call, DeviceError)
    ELSE Failed(call, OperationNotSupported)

\* NvidiaBackend::apply_clock_offsets: only warns
NvApplyClockOffsets(call, gpu_offset, mem_offset) == call

\* NvidiaBackend::apply_config on a registered device: the fan curve's
\* error is logged at debug level and dropped.
NvidiaApplyConfig(device, config, faults) ==
    LET start == [ device |-> device, result |-> Ok, steps |-> << >>, writes |-> << >> ]
        mode  == Logged(start, NvApplyPowerMode(start, config.power_mode, faults),
                        "power_mode")
        limit == IF config.power_limit = None THEN mode
                 ELSE Logged(mode, NvSetPowerLimit(mode, config.power_limit[1] * 1000, faults),
                             "power_limit")
        fan   == IF config.fan_curve = None THEN limit
                 ELSE [ Logged(limit, NvApplyFanCurve(limit, config.fan_curve[1], faults),
                               "fan_curve")
                          EXCEPT !.result = limit.result ]
    IN Logged(fan, NvApplyClockOffsets(fan, config.gpu_clock_offset,
                                       config.memory_clock_offset),
              "clock_offsets")

\* NvidiaBackend::set_fan_curve on a registered device
NvidiaSetFanCurve(device, curve, faults) ==
    NvApplyFanCurve([ device |-> device, result |-> Ok, steps |-> << >>, writes |-> << >> ], curve, faults)

\* AmdBackend::apply_power_mode: writes power_dpm_force_performance_level
AmdApplyPowerMode(call, mode, faults) ==
    LET profile == CASE mode = "MaxPerformance" -> "high"
                     [] mode = "Balanced"       -> "auto"
                     [] mode = "PowerSaver"     -> "low"
                     [] mode = "Custom"         -> "manual"
                     [] mode = "Auto"           -> "auto"
    IN IF ~call.result.ok THEN call
       ELSE IF "performance_level" \in faults THEN Failed(call, DeviceError)
       ELSE [ call EXCEPT !.device.performance_level = profile,
                          !.writes = Append(@, "performance_level") ]

\* AmdBackend::set_device_power_limit: writes power1_cap in microwatts when
\* the device has a hwmon directory, does nothing otherwise
AmdSetDevicePowerLimit(call, limit_watts, faults) ==
    IF ~call.result.ok \/ ~call.device.hwmon THEN call
    ELSE IF "power1_cap" \in faults THEN Failed(call, DeviceError)
    ELSE [ call EXCEPT !.device.power_limit = limit_watts * 1000000,
                       !.writes = Append(@, "power1_cap") ]

\* AmdBackend::apply_device_fan_curve: a failed write of pwm1_enable is only
\* logged, a failed write of pwm1 is an error
AmdApplyDeviceFanCurve(call, curve, faults) ==
    IF ~call.result.ok \/ ~call.device.hwmon THEN call
    ELSE LET target_speed == CalculateFanSpeed(curve, call.device.temperature)
             pwm_value    == (target_speed * 255) \div 100
             enabled      == IF "pwm1_enable" \in faults THEN call
                             ELSE [ call EXCEPT !.device.pwm_enable = 1,
                                                !.writes = Append(@, "pwm1_enable") ]
         IN IF "pwm1" \in faults THEN Failed(enabled, DeviceError)
            ELSE [ enabled EXCEPT !.device.pwm = pwm_value,
                                  !.writes = Append(@, "pwm1") ]

\* AmdBackend::apply_config on a registered device
AmdApplyConfig(device, config, faults) ==
    LET start == [ device |-> device, result |-> Ok, steps |-> << >>, writes |-> << >> ]
        mode  == Logged(start, AmdApplyPowerMode(start, config.power_mode, faults),
                        "power_mode")
        limit == IF config.power_limit = None THEN mode
                 ELSE Logged(mode, AmdSetDevicePowerLimit(mode, config.power_limit[1], faults),
                             "power_limit")
    IN IF config.fan_curve = None THEN limit
       ELSE Logged(limit, AmdApplyDeviceFanCurve(limit, config.fan_curve[1], faults),
                   "fan_curve")

\* The operations of each vendor's driver interface that a call can see fail.
DriverOperations(vendor) ==
    IF vendor = "NVIDIA"
    THEN {"limit_constraints", "set_power_limit", "set_persistent", "set_auto_boost",
          "utilization_rates", "temperature"}
    ELSE {"performance_level", "power1_cap", "pwm1_enable", "pwm1"}

\* No operation fails, or one does.
FaultSets(vendor) == {{}} \cup { {o} : o \in DriverOperations(vendor) }

\* A device whose maximum power constraint is 450 W and whose limit is 400 W,
\* in the vendor's unit (NVML: milliwatts, hwmon: microwatts).
ConfigDevices(vendor) ==
    IF vendor = "NVIDIA"
    THEN { [ vendor |-> "NVIDIA", max_limit |-> 450000, power_limit |-> 400000,
             persistent |-> FALSE, auto_boost |-> b, utilization |-> u ] :
           b \in BOOLEAN, u \in {10, 20, 50, 80, 90} }
    ELSE { [ vendor |-> "AMD", max_limit |-> 450000000, power_limit |-> 400000000,
             performance_level |-> "auto", hwmon |-> h, temperature |-> 60,
             pwm_enable |-> 2, pwm |-> 0, utilization |-> u ] :
           h \in BOOLEAN, u \in {10, 20, 50, 80, 90} }

BackendConfigs ==
    { [ power_mode          |-> mode,
        power_limit         |-> limit,
        fan_curve           |-> curve,
        gpu_clock_offset    |-> offset,
        memory_clock_offset |-> offset ] :
      mode \in PowerModes, limit \in {None, Some(300)},
      curve \in {None, Some(FanCurveAggressive)}, offset \in {None, Some(100)} }

\* apply_config of a backend: GpuNotFound unless the device is in the
\* backend's device map, then the vendor's sub-steps.
BackendApplyConfigSteps(vendor, registered, device, config, faults) ==
    IF ~registered
    THEN [ device |-> device, result |-> GpuNotFound(0), steps |-> << >>, writes |-> << >> ]
    ELSE IF vendor = "NVIDIA" THEN NvidiaApplyConfig(device, config, faults)
    ELSE AmdApplyConfig(device, config, faults)

\* set_fan_curve of the NVIDIA backend
BackendSetFanCurve(registered, device, curve, faults) ==
    IF ~registered
    THEN [ device |-> device, result |-> GpuNotFound(0), steps |-> << >>, writes |-> << >> ]
    ELSE NvidiaSetFanCurve(device, curve, faults)

BackendConfigCalls ==
    UNION { { [ op |-> "apply_config", vendor |-> v, registered |-> r,
                device |-> d, config |-> c, faults |-> f ] :
              r \in BOOLEAN, d \in ConfigDevices(v), c \in BackendConfigs,
              f \in FaultSets(v) } : v \in Vendors }

SetFanCurveCalls ==
    { [ op |-> "set_fan_curve", vendor |-> "NVIDIA", registered |-> r,
        device |-> d, curve |-> c, faults |-> f ] :
      r \in BOOLEAN, d \in ConfigDevices("NVIDIA"),
      c \in {FanCurveAggressive, FanCurveQuiet}, f \in FaultSets("NVIDIA") }

CallBackendApplyConfig ==
    /\ fn_args.op = "apply_config"
    /\ ~fn_result.done
    /\ LET call == BackendApplyConfigSteps(fn_args.vendor, fn_args.registered,
                                           fn_args.device, fn_args.config,
                                           fn_args.faults)
       IN fn_result' = [ done |-> TRUE, result |-> call.result,
                         device |-> call.device, steps |-> call.steps,
                         writes |-> call.writes ]
    /\ UNCHANGED << monVars, mgrVars, chanVars, conVars, fn_args >>

CallBackendSetFanCurve ==
    /\ fn_args.op = "set_fan_curve"
    /\ ~fn_result.done
    /\ LET call == BackendSetFanCurve(fn_args.registered, fn_args.device,
                                      fn_args.curve, fn_args.faults)
       IN fn_result' = [ done |-> TRUE, result |-> call.result,
                         device |-> call.device, steps |-> call.steps,
                         writes |-> call.writes ]
    /\ UNCHANGED << monVars, mgrVars, chanVars, conVars, fn_args >>

\* The operations of a backend on its device map (nvidia.rs, amd.rs).

\* A lookup that finds some device whenever the map holds one.
DeviceLookupOrAny(devices, index) == devices # {}

\* devices.get(&index) / devices.get_mut(&index): Some exactly for a key of
\* the backend's device map
DeviceLookup(devices, index) == index \in devices

StartCall(device) ==
    [ device |-> device, result |-> Ok, steps |-> << >>, writes |-> << >> ]

\* NvidiaBackend::set_power_limit on a registered device
NvidiaSetPowerLimit(device, limit_watts, faults) ==
    NvSetPowerLimit(StartCall(device), limit_watts * 1000, faults)

\* NvidiaBackend::reset_gpu on a registered device: the maximum limit when the
\* constraints can be read, automatic boost on, persistence off
NvidiaResetGpu(device, faults) ==
    NvSetPersistent(
        NvSetAutoBoost(
            IF "limit_constraints" \in faults THEN StartCall(device)
            ELSE NvSetPowerLimit(StartCall(device), device.max_limit, faults),
            TRUE, faults),
        FALSE, faults)

\* AmdBackend::set_power_limit on a registered device
AmdSetPowerLimit(device, limit_watts, faults) ==
    AmdSetDevicePowerLimit(StartCall(device), limit_watts, faults)

\* AmdBackend::set_fan_curve on a registered device
AmdSetFanCurve(device, curve, faults) ==
    AmdApplyDeviceFanCurve(StartCall(device), curve, faults)

\* AmdBackend::reset_gpu on a registered device: the "auto" profile, then
\* automatic fan control when there is a hwmon directory (a failed write of
\* pwm1_enable is dropped)
AmdResetGpu(device, faults) ==
    LET call == StartCall(device)
    IN IF "performance_level" \in faults THEN Failed(call, DeviceError)
       ELSE LET profile == [ call EXCEPT !.device.performance_level = "auto",
                                         !.writes = Append(@, "performance_level") ]
            IN IF ~device.hwmon \/ "pwm1_enable" \in faults THEN profile
               ELSE [ profile EXCEPT !.device.pwm_enable = 2,
                                     !.writes = Append(@, "pwm1_enable") ]

BackendOps ==
    {"get_gpu_status", "apply_config", "set_power_limit", "set_fan_curve", "reset_gpu"}

\* One call of a backend operation that names a device: the lookup in the
\* device map first, GpuNotFound(index) when it finds nothing, else the
\* vendor's code on the device found.
BackendOperation(vendor, devices, h, op, index, device, arg, faults) ==
    IF ~DeviceLookup(devices, index)
    THEN Failed(StartCall(device), GpuNotFound(index))
    ELSE CASE op = "get_gpu_status" ->
                [ StartCall(device) EXCEPT
                    !.result = BackendGetGpuStatus(vendor, devices, h, index) ]
           [] op = "apply_config" ->
                IF vendor = "NVIDIA" THEN NvidiaApplyConfig(device, arg, faults)
                ELSE AmdApplyConfig(device, arg, faults)
           [] op = "set_power_limit" ->
                IF vendor = "NVIDIA" THEN NvidiaSetPowerLimit(device, arg, faults)
                ELSE AmdSetPowerLimit(device, arg, faults)
           [] op = "set_fan_curve" ->
                IF vendor = "NVIDIA" THEN NvidiaSetFanCurve(device, arg, faults)
                ELSE AmdSetFanCurve(device, arg, faults)
           [] op = "reset_gpu" ->
                IF vendor = "NVIDIA" THEN NvidiaResetGpu(device, faults)
                ELSE AmdResetGpu(device, faults)

\* What a caller hands to each operation besides the index.
BackendOpArgs(op) ==
    CASE op = "apply_config" ->
            { c \in BackendConfigs : /\ c.power_mode = "MaxPerformance"
                                     /\ c.power_limit = None
                                     /\ c.gpu_clock_offset = None }
      [] op = "set_power_limit" -> {300}
      [] op = "set_fan_curve"   -> {FanCurveQuiet}
      [] OTHER                  -> {None}

\* The settings the device has when the call arrives.
BackendOpDevices(vendor) ==
    { d \in ConfigDevices(vendor) :
        /\ d.utilization = 50
        /\ (vendor = "NVIDIA" => ~d.auto_boost)
        /\ (vendor = "AMD" => d.hwmon) }

\* The driver or sysfs operations that fail during the call: none, or one of
\* the first and the last write of the vendor.
BackendOpFaults(vendor) ==
    IF vendor = "NVIDIA" THEN {{}, {"set_power_limit"}, {"set_persistent"}}
    ELSE {{}, {"performance_level"}, {"pwm1"}}

\* backend.<op>(index, ...) on the backend registered for `vendor`
BackendOp(vendor, op, index, device, arg, faults) ==
    /\ vendor \in backends
    /\ LET call == BackendOperation(vendor, DevicesOf(vendor), hw, op, index,
                                    device, arg, faults)
       IN backend_call' = [ vendor  |-> vendor,
                            op      |-> op,
                            index   |-> index,
                            devices |-> DevicesOf(vendor),
                            before  |-> device,
                            device  |-> call.device,
                            result  |-> call.result,
                            writes  |-> call.writes ]
    /\ UNCHANGED << mgrVars, tasks, gpus_lock, devices_lock >>

\* backend.detect_gpus() on the backend registered for `vendor`
BackendDetect(vendor) ==
    /\ vendor \in backends
    /\ nvidia_devices' = IF vendor = "NVIDIA" THEN BackendDetectGpus(vendor).devices
                         ELSE nvidia_devices
    /\ amd_devices' = IF vendor = "AMD" THEN BackendDetectGpus(vendor).devices
                      ELSE amd_devices
    /\ backend_call' = [ vendor |-> vendor, op |-> "detect_gpus",
                         result |-> BackendDetectGpus(vendor).result ]
    /\ UNCHANGED << backends, backend_order, gpus, monitoring_enabled, amd_order,
                    hw, mgr_receivers, mgr_call, hw_changed, enabled_intervals,
                    loop_polls, tasks, gpus_lock, devices_lock >>


\* ---------------------------------------------------------------------
\* Concurrent calls of the manager (lib.rs, nvidia.rs, amd.rs)
\* ---------------------------------------------------------------------

\* The callers: tasks that share one GpuManager, each making one call after
\* another.
TaskIds == {1, 2}

\* The locks are tokio RwLocks: many readers or one writer, and requests
\* that cannot be granted at once queue in arrival order; a request that
\* arrives while others queue goes behind them.
Holds(lock, t) == t \in lock.readers \/ lock.writer = Some(t)

CanGrant(lock, mode) ==
    IF mode = "read" THEN lock.writer = None
    ELSE lock.writer = None /\ lock.readers = {}

Grant(lock, t, mode) ==
    IF mode = "read" THEN [ lock EXCEPT !.readers = @ \cup {t} ]
    ELSE [ lock EXCEPT !.writer = Some(t) ]

\* lock.read().await / lock.write().await, up to the point where the caller
\* holds the lock or waits for it
Acquire(lock, t, mode) ==
    IF lock.waiters = << >> /\ CanGrant(lock, mode) THEN Grant(lock, t, mode)
    ELSE [ lock EXCEPT !.waiters = Append(@, [ task |-> t, mode |-> mode ]) ]

\* the queue served from its head for as long as the head can be granted
RECURSIVE Wake(_)
Wake(lock) ==
    IF lock.waiters # << >> /\ CanGrant(lock, Head(lock.waiters).mode)
    THEN Wake([ Grant(lock, Head(lock.waiters).task, Head(lock.waiters).mode)
                  EXCEPT !.waiters = Tail(@) ])
    ELSE lock

\* A guard dropped without serving the queue.
ReleaseWithoutWake(lock, t) ==
    [ lock EXCEPT !.readers = @ \ {t},
                  !.writer = IF @ = Some(t) THEN None ELSE @ ]

\* the guard goes out of scope
Release(lock, t) ==
    Wake([ lock EXCEPT !.readers = @ \ {t},
                       !.writer = IF @ = Some(t) THEN None ELSE @ ])

\* the lock on the device map that apply_config of a backend takes:
\* self.devices.write() in nvidia.rs, self.devices.read() in amd.rs
ApplyConfigLockMode(vendor) == IF vendor = "NVIDIA" THEN "write" ELSE "read"

IdleTask == [ op |-> "idle" ]

\* What stays as it is in every step of a call.
mgrFixed == << backends, backend_order, monitoring_enabled, amd_devices, amd_order,
               mgr_receivers, mgr_call, hw_changed, enabled_intervals, loop_polls,
               backend_call >>

\* detect_gpus is called.
StartDetect(t) ==
    /\ tasks[t] = IdleTask
    /\ tasks' = [ tasks EXCEPT ![t] = [ op |-> "detect_gpus", pc |-> "detect_next",
                                        k |-> 1, all_gpus |-> << >>, found |-> {} ] ]
    /\ UNCHANGED << mgrFixed, gpus, nvidia_devices, hw, gpus_lock, devices_lock >>

\* detect_gpus goes on to its next backend: NvidiaBackend::detect_gpus reads
\* the driver (a failure ends that backend's turn) and then asks for the
\* write lock of its map; AmdBackend::detect_gpus asks for the read lock of
\* its map. After the last backend detect_gpus asks for the write lock of
\* the cache.
DetectBackend(t) ==
    /\ tasks[t].op = "detect_gpus"
    /\ tasks[t].pc = "detect_next"
    /\ IF tasks[t].k > Len(backend_order)
       THEN /\ gpus_lock' = Acquire(gpus_lock, t, "write")
            /\ tasks' = [ tasks EXCEPT ![t].pc = "detect_store" ]
            /\ UNCHANGED devices_lock
       ELSE IF backend_order[tasks[t].k] = "NVIDIA"
       THEN IF hw.nvml_fails
            THEN /\ tasks' = [ tasks EXCEPT ![t].k = @ + 1 ]
                 /\ UNCHANGED << gpus_lock, devices_lock >>
            ELSE /\ tasks' = [ tasks EXCEPT ![t].pc = "detect_nvidia_store",
                                            ![t].found = hw.nvidia_visible ]
                 /\ devices_lock' = [ devices_lock EXCEPT
                                        !["NVIDIA"] = Acquire(@, t, "write") ]
                 /\ UNCHANGED gpus_lock
       ELSE /\ tasks' = [ tasks EXCEPT ![t].pc = "detect_amd_read" ]
            /\ devices_lock' = [ devices_lock EXCEPT !["AMD"] = Acquire(@, t, "read") ]
            /\ UNCHANGED gpus_lock
    /\ UNCHANGED << mgrFixed, gpus, nvidia_devices, hw >>

\* NvidiaBackend::detect_gpus with the write lock: *devices = devices_map
DetectNvidiaStore(t) ==
    /\ tasks[t].op = "detect_gpus"
    /\ tasks[t].pc = "detect_nvidia_store"
    /\ Holds(devices_lock["NVIDIA"], t)
    /\ nvidia_devices' = tasks[t].found
    /\ devices_lock' = [ devices_lock EXCEPT !["NVIDIA"] = Release(@, t) ]
    /\ tasks' = [ tasks EXCEPT
                    ![t].pc = "detect_next",
                    ![t].k = @ + 1,
                    ![t].found = {},
                    ![t].all_gpus =
                        AppendDetected(@, OkWith(StatusesOf("NVIDIA",
                                                            Ascending(tasks[t].found)))) ]
    /\ UNCHANGED << mgrFixed, gpus, hw, gpus_lock >>

\* AmdBackend::detect_gpus with the read lock
DetectAmdRead(t) ==
    /\ tasks[t].op = "detect_gpus"
    /\ tasks[t].pc = "detect_amd_read"
    /\ Holds(devices_lock["AMD"], t)
    /\ devices_lock' = [ devices_lock EXCEPT !["AMD"] = Release(@, t) ]
    /\ tasks' = [ tasks EXCEPT
                    ![t].pc = "detect_next",
                    ![t].k = @ + 1,
                    ![t].all_gpus =
                        AppendDetected(@, AmdDetectGpus(hw, amd_devices, amd_order).result) ]
    /\ UNCHANGED << mgrFixed, gpus, nvidia_devices, hw, gpus_lock >>

\* detect_gpus with the write lock of the cache: the cache is replaced and
\* the call returns
DetectStore(t) ==
    /\ tasks[t].op = "detect_gpus"
    /\ tasks[t].pc = "detect_store"
    /\ Holds(gpus_lock, t)
    /\ gpus' = ReplaceCache(gpus, tasks[t].all_gpus)
    /\ gpus_lock' = Release(gpus_lock, t)
    /\ tasks' = [ tasks EXCEPT ![t] = IdleTask ]
    /\ UNCHANGED << mgrFixed, nvidia_devices, hw, devices_lock >>

\* get_all_gpu_status is called: self.gpus.read().await
StartStatus(t) ==
    /\ tasks[t] = IdleTask
    /\ tasks' = [ tasks EXCEPT ![t] = [ op |-> "get_all_gpu_status",
                                        pc |-> "status_next", k |-> 1 ] ]
    /\ gpus_lock' = Acquire(gpus_lock, t, "read")
    /\ UNCHANGED << mgrFixed, gpus, nvidia_devices, hw, devices_lock >>

\* get_all_gpu_status, holding the read lock of the cache, goes on to the
\* next cached device (backend.get_gpu_status asks for the read lock of the
\* device map) or returns after the last
StatusNext(t) ==
    /\ tasks[t].op = "get_all_gpu_status"
    /\ tasks[t].pc = "status_next"
    /\ Holds(gpus_lock, t)
    /\ IF tasks[t].k > Len(gpus)
       THEN /\ gpus_lock' = Release(gpus_lock, t)
            /\ tasks' = [ tasks EXCEPT ![t] = IdleTask ]
            /\ UNCHANGED devices_lock
       ELSE /\ devices_lock' = [ devices_lock EXCEPT
                                   ![gpus[tasks[t].k].vendor] = Acquire(@, t, "read") ]
            /\ tasks' = [ tasks EXCEPT ![t].pc = "status_read" ]
            /\ UNCHANGED gpus_lock
    /\ UNCHANGED << mgrFixed, gpus, nvidia_devices, hw >>

\* backend.get_gpu_status with the read lock of the device map
StatusRead(t) ==
    /\ tasks[t].op = "get_all_gpu_status"
    /\ tasks[t].pc = "status_read"
    /\ Holds(devices_lock[gpus[tasks[t].k].vendor], t)
    /\ devices_lock' = [ devices_lock EXCEPT
                           ![gpus[tasks[t].k].vendor] = Release(@, t) ]
    /\ tasks' = [ tasks EXCEPT ![t].pc = "status_next", ![t].k = @ + 1 ]
    /\ UNCHANGED << mgrFixed, gpus, nvidia_devices, hw, gpus_lock >>

\* apply_config(gpu_index, config) is called: self.gpus.read().await
StartApply(t, gpu_index) ==
    /\ tasks[t] = IdleTask
    /\ tasks' = [ tasks EXCEPT ![t] = [ op |-> "apply_config", pc |-> "apply_find",
                                        index |-> gpu_index, vendor |-> "" ] ]
    /\ gpus_lock' = Acquire(gpus_lock, t, "read")
    /\ UNCHANGED << mgrFixed, gpus, nvidia_devices, hw, devices_lock >>

\* apply_config, holding the read lock of the cache: GpuNotFound for an
\* index that is not cached, else backend.apply_config asks for the lock of
\* the device map
ApplyFind(t) ==
    /\ tasks[t].op = "apply_config"
    /\ tasks[t].pc = "apply_find"
    /\ Holds(gpus_lock, t)
    /\ LET pos == FindByIndex(gpus, tasks[t].index)
       IN IF pos = 0
          THEN /\ gpus_lock' = Release(gpus_lock, t)
               /\ tasks' = [ tasks EXCEPT ![t] = IdleTask ]
               /\ UNCHANGED devices_lock
          ELSE /\ devices_lock' =
                     [ devices_lock EXCEPT
                         ![gpus[pos].vendor] =
                             Acquire(@, t, ApplyConfigLockMode(gpus[pos].vendor)) ]
               /\ tasks' = [ tasks EXCEPT ![t].pc = "apply_lookup",
                                          ![t].vendor = gpus[pos].vendor ]
               /\ UNCHANGED gpus_lock
    /\ UNCHANGED << mgrFixed, gpus, nvidia_devices, hw >>

\* backend.apply_config with the lock of the device map: GpuNotFound for an
\* index that is not in the map (both guards are dropped), else the
\* sub-steps begin
ApplyLookup(t) ==
    /\ tasks[t].op = "apply_config"
    /\ tasks[t].pc = "apply_lookup"
    /\ Holds(devices_lock[tasks[t].vendor], t)
    /\ IF DeviceLookup(DevicesOf(tasks[t].vendor), tasks[t].index)
       THEN /\ tasks' = [ tasks EXCEPT ![t].pc = "apply_substeps" ]
            /\ UNCHANGED << gpus_lock, devices_lock >>
       ELSE /\ devices_lock' = [ devices_lock EXCEPT ![tasks[t].vendor] = Release(@, t) ]
            /\ gpus_lock' = Release(gpus_lock, t)
            /\ tasks' = [ tasks EXCEPT ![t] = IdleTask ]
    /\ UNCHANGED << mgrFixed, gpus, nvidia_devices, hw >>

\* the sub-steps of backend.apply_config end (with Ok or with the first
\* error), both guards are dropped and apply_config returns
ApplySubSteps(t) ==
    /\ tasks[t].op = "apply_config"
    /\ tasks[t].pc = "apply_substeps"
    /\ devices_lock' = [ devices_lock EXCEPT ![tasks[t].vendor] = Release(@, t) ]
    /\ gpus_lock' = Release(gpus_lock, t)
    /\ tasks' = [ tasks EXCEPT ![t] = IdleTask ]
    /\ UNCHANGED << mgrFixed, gpus, nvidia_devices, hw >>

\* switch_gpu(from_index, to_index, reason) is called: self.gpus.read().await
StartSwitch(t) ==
    /\ tasks[t] = IdleTask
    /\ tasks' = [ tasks EXCEPT ![t] = [ op |-> "switch_gpu", pc |-> "switch_find" ] ]
    /\ gpus_lock' = Acquire(gpus_lock, t, "read")
    /\ UNCHANGED << mgrFixed, gpus, nvidia_devices, hw, devices_lock >>

\* switch_gpu, holding the read lock of the cache: the two lookups and
\* backend.switch_gpu, which takes no lock; the call returns
SwitchFind(t) ==
    /\ tasks[t].op = "switch_gpu"
    /\ tasks[t].pc = "switch_find"
    /\ Holds(gpus_lock, t)
    /\ gpus_lock' = Release(gpus_lock, t)
    /\ tasks' = [ tasks EXCEPT ![t] = IdleTask ]
    /\ UNCHANGED << mgrFixed, gpus, nvidia_devices, hw, devices_lock >>

\* A call of task t moves on.
TaskStep(t) ==
    /\ \/ DetectBackend(t)
       \/ DetectNvidiaStore(t)
       \/ DetectAmdRead(t)
       \/ DetectStore(t)
       \/ StatusNext(t)
       \/ StatusRead(t)
       \/ ApplyFind(t)
       \/ ApplyLookup(t)
       \/ ApplySubSteps(t)
       \/ SwitchFind(t)
    /\ UNCHANGED << monVars, fnVars, chanVars >>

\* An NVIDIA device appears or disappears.
DeviceChange ==
    /\ \E i \in DeviceIndices : hw' = [ hw EXCEPT !.nvidia_visible = Toggle(@, i) ]
    /\ UNCHANGED << mgrFixed, gpus, nvidia_devices, tasks, gpus_lock, devices_lock >>

\* ---------------------------------------------------------------------
\* The event channel (tokio::sync::broadcast, lib.rs, monitor.rs)
\* ---------------------------------------------------------------------

\* channel is [ pos, buffer, log ]: how many values were sent, the values
\* retained, each with its position, and every value sent so far. A
\* subscriber is [ since, next, received, missed ]: the first position it
\* can see, the position it reads next, what it received and how many
\* values it was told it missed.
SubscriberIds == {1, 2}

\* A sender that waits until the slowest receiver has read the oldest value
\* of a full buffer.
SendWaitingForSlowest(chan, subs) ==
    IF Len(chan.buffer) < ChannelCapacity THEN TRUE
    ELSE \A r \in DOMAIN subs : subs[r].next > chan.buffer[1].pos

\* broadcast::Sender::send is not async: it never waits for a receiver
SendReady(chan, subs) == TRUE

\* the newest `capacity` values of a buffer
Retained(buffer, capacity) ==
    SubSeq(buffer, Max(1, Len(buffer) - capacity + 1), Len(buffer))

\* self.event_sender.send(event): Err with no receiver, the value is dropped;
\* else the value is stored and the oldest one leaves a full buffer
ChannelSend(chan, event, receivers) ==
    IF ~SendOk(receivers) THEN chan
    ELSE [ pos    |-> chan.pos + 1,
           buffer |-> Retained(Append(chan.buffer,
                                      [ pos |-> chan.pos + 1, event |-> event ]),
                               ChannelCapacity),
           log    |-> Append(chan.log, event) ]

RECURSIVE ChannelSendAll(_, _, _)
ChannelSendAll(chan, events, receivers) ==
    IF events = << >> THEN chan
    ELSE ChannelSendAll(ChannelSend(chan, Head(events), receivers), Tail(events),
                        receivers)

\* Snapshots that raise no alert and one alert.
ChannelStatuses ==
    { MkStatus("NVIDIA", 0, 79, 100, 300, 1, 8, 10),
      MkStatus("NVIDIA", 0, 90, 100, 300, 1, 8, 96) }

\* record_metrics with its alerts going out on the channel
ChanRecordMetrics(gpu_index, status) ==
    /\ SendReady(channel, subscribers)
    /\ RecordMetrics(gpu_index, status)
    /\ channel' = ChannelSendAll(channel, mon_call'.events, mon_receivers)
    /\ UNCHANGED subscribers

\* A record_metrics call of some caller, the rest of the program at rest.
SomeRecordMetrics ==
    /\ \E status \in ChannelStatuses : ChanRecordMetrics(0, status)
    /\ UNCHANGED << mgrVars, fnVars, conVars >>

\* event_sender.subscribe(): the receiver sees the values sent from now on
ChanSubscribe(r) ==
    /\ r \notin DOMAIN subscribers
    /\ subscribers' = [ q \in DOMAIN subscribers \cup {r} |->
                          IF q = r
                          THEN [ since    |-> channel.pos + 1,
                                 next     |-> channel.pos + 1,
                                 received |-> << >>,
                                 missed   |-> 0 ]
                          ELSE subscribers[q] ]
    /\ mon_receivers' = mon_receivers + 1
    /\ UNCHANGED << metrics_history, alert_config, stats, max_history_length,
                    now, mon_call, arrivals, mon_counts, channel >>

\* the receiver is dropped
ChanDrop(r) ==
    /\ r \in DOMAIN subscribers
    /\ subscribers' = [ q \in DOMAIN subscribers \ {r} |-> subscribers[q] ]
    /\ mon_receivers' = mon_receivers - 1
    /\ UNCHANGED << metrics_history, alert_config, stats, max_history_length,
                    now, mon_call, arrivals, mon_counts, channel >>

\* receiver.recv().await with a value waiting: Err(Lagged(n)) when the value
\* it would read next has left the buffer (the receiver moves on to the
\* oldest value retained), else the next value
ChanRecv(r) ==
    /\ r \in DOMAIN subscribers
    /\ subscribers[r].next <= channel.pos
    /\ LET oldest == channel.buffer[1].pos
           me     == subscribers[r]
       IN subscribers' =
             [ subscribers EXCEPT
                 ![r] = IF me.next < oldest
                        THEN [ me EXCEPT !.next = oldest,
                                         !.missed = @ + (oldest - me.next) ]
                        ELSE [ me EXCEPT
                                 !.next = @ + 1,
                                 !.received =
                                     Append(@, channel.buffer[me.next - oldest + 1]) ] ]
    /\ UNCHANGED << monVars, channel >>

\* ---------------------------------------------------------------------
\* Specifications
\* ---------------------------------------------------------------------

\* The manager at rest, for behaviours of the monitor alone.
MgrAtRest ==
    /\ backends = {}
    /\ backend_order = << >>
    /\ gpus = << >>
    /\ monitoring_enabled = FALSE
    /\ nvidia_devices = {}
    /\ amd_devices = {}
    /\ amd_order = << >>
    /\ hw = [ nvml_fails |-> FALSE, nvidia_visible |-> {}, amd_readable |-> {} ]
    /\ mgr_receivers = 0
    /\ mgr_call = MgrIdleCall
    /\ hw_changed = TRUE
    /\ enabled_intervals = 0
    /\ loop_polls = 0
    /\ ConAtRest

\* The monitor at rest, for behaviours of the manager alone.
MonAtRest ==
    /\ metrics_history = << >>
    /\ alert_config = DefaultAlertConfig
    /\ stats = DefaultStats
    /\ max_history_length = MaxHistoryLength
    /\ mon_receivers = 0
    /\ now = 1000
    /\ mon_call = MonIdleCall
    /\ arrivals = << >>
    /\ mon_counts = NoCounts
    /\ ChanAtRest

\* No function call under study.
FnAtRest ==
    /\ fn_args = NoCall
    /\ fn_result = NotCalled

InitMonitor == MonInit /\ MgrAtRest /\ FnAtRest

NextMonitor ==
    \/ \E config \in AlertConfigs : SetAlertConfig(config) /\ UNCHANGED << mgrVars, fnVars, chanVars, conVars >>
    \/ \E i \in MonitorDevices, status \in MonitorStatuses :
          /\ stats.total_metrics_collected < MaxRecords
          /\ RecordMetrics(i, status)
          /\ UNCHANGED << mgrVars, fnVars, chanVars, conVars >>
    \/ \E i \in MonitorDevices : ClearHistory(i) /\ UNCHANGED << mgrVars, fnVars, chanVars, conVars >>
    \/ ClearAllHistory /\ UNCHANGED << mgrVars, fnVars, chanVars, conVars >>
    \/ MonSubscribe /\ UNCHANGED << mgrVars, fnVars, chanVars, conVars >>
    \/ MonDropReceiver /\ UNCHANGED << mgrVars, fnVars, chanVars, conVars >>
    \/ Tick /\ UNCHANGED << mgrVars, fnVars, chanVars, conVars >>

SpecMonitor == InitMonitor /\ [][NextMonitor]_vars

InitManager == MgrInit /\ MonAtRest /\ FnAtRest

NextManager ==
    \/ DetectGpus /\ UNCHANGED << monVars, fnVars, chanVars, conVars >>
    \/ GetAllGpuStatus /\ UNCHANGED << monVars, fnVars, chanVars, conVars >>
    \/ \E i \in CallerIndices, config \in Configs, io_ok \in BOOLEAN,
          target \in 0 .. Len(gpus) :
          /\ (target # 0 => gpus[target].index = i)
          /\ (target = 0 => ~IndexCached(gpus, i))
          /\ ApplyConfig(i, config, io_ok, target)
          /\ UNCHANGED << monVars, fnVars, chanVars, conVars >>
    \/ \E from_index, to_index \in CallerIndices, reason \in Reasons,
          target \in 0 .. Len(gpus) :
          /\ (target # 0 => gpus[target].index = from_index)
          /\ (target = 0 => ~IndexCached(gpus, from_index))
          /\ SwitchGpu(from_index, to_index, reason, target)
          /\ UNCHANGED << monVars, fnVars, chanVars, conVars >>
    \/ HardwareChange /\ UNCHANGED << monVars, fnVars, chanVars, conVars >>

SpecManager == InitManager /\ [][NextManager]_vars

\* The manager's monitoring switch and event subscriptions, as time passes.
NextMonitoring ==
    \/ StartMonitoring /\ UNCHANGED << monVars, fnVars, chanVars, conVars >>
    \/ StopMonitoring /\ UNCHANGED << monVars, fnVars, chanVars, conVars >>
    \/ SubscribeEvents /\ UNCHANGED << monVars, fnVars, chanVars, conVars >>
    \/ DropSubscriber /\ UNCHANGED << monVars, fnVars, chanVars, conVars >>
    \/ IntervalElapses /\ UNCHANGED << monVars, fnVars, chanVars, conVars >>

SpecMonitoring == InitManager /\ [][NextMonitoring]_vars

\* The alert rules applied to one status.
InitAlerts == MonAtRest /\ MgrAtRest /\ fn_args \in AlertRuleCalls /\ fn_result = NotCalled

NextAlerts == CallCheckAlerts

SpecAlerts == InitAlerts /\ [][NextAlerts]_vars

\* The alert rules over the history of one device: a monitor that retains
\* every point of the run.
InitRules ==
    /\ metrics_history = << >>
    /\ alert_config = DefaultAlertConfig
    /\ stats = DefaultStats
    /\ max_history_length = MaxRuleRecords
    /\ mon_receivers = 0
    /\ now = 1000
    /\ mon_call = MonIdleCall
    /\ arrivals = << >>
    /\ mon_counts = NoCounts
    /\ ChanAtRest
    /\ MgrAtRest
    /\ FnAtRest

NextRules ==
    \/ \E config \in RuleConfigs :
          SetAlertConfig(config) /\ UNCHANGED << mgrVars, fnVars, chanVars, conVars >>
    \/ \E status \in RuleStatuses :
          /\ stats.total_metrics_collected < MaxRuleRecords
          /\ RecordMetrics(0, status)
          /\ UNCHANGED << mgrVars, fnVars, chanVars, conVars >>
    \/ Tick /\ UNCHANGED << mgrVars, fnVars, chanVars, conVars >>

SpecRules == InitRules /\ [][NextRules]_vars

\* The two efficiency scores applied to one input.
InitEfficiency ==
    MonAtRest /\ MgrAtRest /\ fn_args \in EfficiencyCalls /\ fn_result = NotCalled

NextEfficiency == CallEfficiencyScore \/ CallWindowEfficiencyScore

SpecEfficiency == InitEfficiency /\ [][NextEfficiency]_vars

\* detect_anomalies on a monitor that holds one device's history.
InitAnomalies ==
    /\ \E history \in AnomalyHistories :
          /\ metrics_history = (IF history = << >> THEN << >> ELSE Put(<< >>, 0, history))
          /\ arrivals = metrics_history
          /\ mon_counts = [ NoCounts EXCEPT !.recorded = Len(history) ]
          /\ stats = [ DefaultStats EXCEPT
                         !.total_metrics_collected = Len(history),
                         !.last_collection_time =
                             IF history = << >> THEN None
                             ELSE Some(history[Len(history)].timestamp),
                         !.gpu_count = IF history = << >> THEN 0 ELSE 1 ]
    /\ alert_config = DefaultAlertConfig
    /\ max_history_length = 1440
    /\ mon_receivers = 0
    /\ now = 1000
    /\ mon_call = MonIdleCall
    /\ ChanAtRest
    /\ MgrAtRest
    /\ fn_args \in AnomalyCalls
    /\ fn_result = NotCalled

NextAnomalies == CallDetectAnomalies

SpecAnomalies == InitAnomalies /\ [][NextAnomalies]_vars

\* analyze_performance_trend on a monitor that holds one device's history.
InitTrend ==
    /\ \E history \in TrendHistories :
          /\ metrics_history = (IF history = << >> THEN << >> ELSE Put(<< >>, 0, history))
          /\ arrivals = metrics_history
          /\ mon_counts = [ NoCounts EXCEPT !.recorded = Len(history) ]
          /\ stats = [ DefaultStats EXCEPT
                         !.total_metrics_collected = Len(history),
                         !.last_collection_time =
                             IF history = << >> THEN None
                             ELSE Some(history[Len(history)].timestamp),
                         !.gpu_count = IF history = << >> THEN 0 ELSE 1 ]
    /\ alert_config = DefaultAlertConfig
    /\ max_history_length = 1440
    /\ mon_receivers = 0
    /\ now = 1000
    /\ mon_call = MonIdleCall
    /\ ChanAtRest
    /\ MgrAtRest
    /\ fn_args \in TrendCalls
    /\ fn_result = NotCalled

NextTrend == CallAnalyzePerformanceTrend

SpecTrend == InitTrend /\ [][NextTrend]_vars

\* calculate_fan_speed applied to one curve and temperature.
InitFanCurve ==
    MonAtRest /\ MgrAtRest /\ fn_args \in FanSpeedCalls /\ fn_result = NotCalled

NextFanCurve == CallCalculateFanSpeed

SpecFanCurve == InitFanCurve /\ [][NextFanCurve]_vars

\* One configuration request to one backend device.
InitBackendConfig ==
    /\ MonAtRest
    /\ MgrAtRest
    /\ fn_args \in BackendConfigCalls \cup SetFanCurveCalls
    /\ fn_result = NotCalled

NextBackendConfig == CallBackendApplyConfig \/ CallBackendSetFanCurve

SpecBackendConfig == InitBackendConfig /\ [][NextBackendConfig]_vars

\* The backends called directly, as the host changes.
InitBackends == MgrInit /\ MonAtRest /\ FnAtRest

NextBackends ==
    \/ \E vendor \in Vendors : BackendDetect(vendor) /\ UNCHANGED << monVars, fnVars, chanVars >>
    \/ \E vendor \in Vendors, op \in BackendOps, i \in CallerIndices :
          \E device \in BackendOpDevices(vendor), arg \in BackendOpArgs(op),
             faults \in BackendOpFaults(vendor) :
             /\ BackendOp(vendor, op, i, device, arg, faults)
             /\ UNCHANGED << monVars, fnVars, chanVars >>
    \/ /\ HardwareChange
       /\ UNCHANGED << monVars, fnVars, chanVars, conVars >>

SpecBackends == InitBackends /\ [][NextBackends]_vars

\* Tasks calling one manager concurrently. Both backends are registered and
\* the AMD backend found one card.
InitConcurrent ==
    /\ backends = Vendors
    /\ backend_order \in Orders(backends)
    /\ amd_devices = {0}
    /\ amd_order = << 0 >>
    /\ nvidia_devices = {}
    /\ gpus = << >>
    /\ monitoring_enabled = FALSE
    /\ hw \in HardwareStates
    /\ ~hw.nvml_fails
    /\ hw.amd_readable = amd_devices
    /\ mgr_receivers = 0
    /\ mgr_call = MgrIdleCall
    /\ hw_changed = TRUE
    /\ enabled_intervals = 0
    /\ loop_polls = 0
    /\ tasks = [ t \in TaskIds |-> IdleTask ]
    /\ gpus_lock = FreeLock
    /\ devices_lock = [ v \in Vendors |-> FreeLock ]
    /\ backend_call = [ op |-> "none" ]
    /\ MonAtRest
    /\ FnAtRest

NextConcurrent ==
    \/ \E t \in TaskIds : StartDetect(t) /\ UNCHANGED << monVars, fnVars, chanVars >>
    \/ \E t \in TaskIds : StartStatus(t) /\ UNCHANGED << monVars, fnVars, chanVars >>
    \/ \E t \in TaskIds, i \in DeviceIndices :
          StartApply(t, i) /\ UNCHANGED << monVars, fnVars, chanVars >>
    \/ \E t \in TaskIds : StartSwitch(t) /\ UNCHANGED << monVars, fnVars, chanVars >>
    \/ \E t \in TaskIds : DetectBackend(t) /\ UNCHANGED << monVars, fnVars, chanVars >>
    \/ \E t \in TaskIds : DetectNvidiaStore(t) /\ UNCHANGED << monVars, fnVars, chanVars >>
    \/ \E t \in TaskIds : DetectAmdRead(t) /\ UNCHANGED << monVars, fnVars, chanVars >>
    \/ \E t \in TaskIds : DetectStore(t) /\ UNCHANGED << monVars, fnVars, chanVars >>
    \/ \E t \in TaskIds : StatusNext(t) /\ UNCHANGED << monVars, fnVars, chanVars >>
    \/ \E t \in TaskIds : StatusRead(t) /\ UNCHANGED << monVars, fnVars, chanVars >>
    \/ \E t \in TaskIds : ApplyFind(t) /\ UNCHANGED << monVars, fnVars, chanVars >>
    \/ \E t \in TaskIds : ApplyLookup(t) /\ UNCHANGED << monVars, fnVars, chanVars >>
    \/ \E t \in TaskIds : ApplySubSteps(t) /\ UNCHANGED << monVars, fnVars, chanVars >>
    \/ \E t \in TaskIds : SwitchFind(t) /\ UNCHANGED << monVars, fnVars, chanVars >>
    \/ DeviceChange /\ UNCHANGED << monVars, fnVars, chanVars >>

SpecConcurrent == InitConcurrent /\ [][NextConcurrent]_vars

\* The runtime keeps polling a task that can go on: a call that holds what
\* it asked for, or needs nothing, takes its next step.
SpecConcurrentFair ==
    SpecConcurrent /\ \A t \in TaskIds : WF_vars(TaskStep(t))

\* The monitor sending its alerts to receivers that come, go, read and
\* fall behind.
InitChannel ==
    /\ MonInit
    /\ mon_receivers = 0
    /\ MgrAtRest
    /\ FnAtRest

NextChannel ==
    \/ \E status \in ChannelStatuses :
          /\ stats.total_metrics_collected < MaxRecords
          /\ ChanRecordMetrics(0, status)
          /\ UNCHANGED << mgrVars, fnVars, conVars >>
    \/ \E r \in SubscriberIds : ChanSubscribe(r) /\ UNCHANGED << mgrVars, fnVars, conVars >>
    \/ \E r \in SubscriberIds : ChanDrop(r) /\ UNCHANGED << mgrVars, fnVars, conVars >>
    \/ \E r \in SubscriberIds : ChanRecv(r) /\ UNCHANGED << mgrVars, fnVars, conVars >>

SpecChannel == InitChannel /\ [][NextChannel]_vars

\* ---------------------------------------------------------------------
\* Properties
\* ---------------------------------------------------------------------

Range(seq) == { seq[k] : k \in 1 .. Len(seq) }

\* the last n elements of seq (all of it when it is shorter)
LastN(seq, n) == SubSeq(seq, Max(1, Len(seq) - n + 1), Len(seq))

RecordReturned == mon_call.op = "record_metrics"

\* C1: once record_metrics has returned, no device's history is longer than
\* max_history_length, and each history is exactly the most recent points
\* recorded for that device (at most max_history_length of them), in arrival
\* order.
C1_HistoryBoundedFifo ==
    \A i \in DOMAIN metrics_history :
        /\ Len(metrics_history[i]) <= max_history_length
        /\ metrics_history[i] = LastN(arrivals[i], max_history_length)

\* More points than the capacity were recorded for one device since its
\* history was last cleared, the oldest differing from the one that follows.
C1_Witness ==
    /\ RecordReturned
    /\ \E i \in DOMAIN arrivals :
          /\ Len(arrivals[i]) > max_history_length
          /\ arrivals[i][1] # arrivals[i][2]

\* the statistics record_metrics leaves when no alert is counted
QuietStats ==
    [ mon_call.stats_before EXCEPT
        !.total_metrics_collected = @ + 1,
        !.last_collection_time    = Some(mon_call.point.timestamp),
        !.gpu_count               = Cardinality(DOMAIN metrics_history) ]

PointAppended ==
    /\ mon_call.gpu_index \in DOMAIN metrics_history
    /\ metrics_history[mon_call.gpu_index] # << >>
    /\ LET history == metrics_history[mon_call.gpu_index]
       IN history[Len(history)] = mon_call.point

SendsFailed == mon_call.events # << >> /\ ~mon_call.delivered

\* C9 as stated: record_metrics appends the point and returns Ok also when
\* its alerts cannot be sent, and the failed sends are counted in the
\* statistics (so the statistics differ from those of a call with no alert).
C9_FailedSendsCounted ==
    RecordReturned =>
        /\ mon_call.result = "Ok"
        /\ PointAppended
        /\ (SendsFailed => stats # QuietStats)

\* C9 amended: record_metrics appends the point and returns Ok also when its
\* alerts cannot be sent; a failed send is not propagated and leaves the
\* statistics as a call without alerts would (alerts_triggered counts the
\* successful sends only).
C9_FailedSendsDropped ==
    RecordReturned =>
        /\ mon_call.result = "Ok"
        /\ PointAppended
        /\ (SendsFailed => stats = QuietStats)
        /\ (~SendsFailed =>
              stats = [ QuietStats EXCEPT
                          !.alerts_triggered = @ + Len(mon_call.events) ])

\* A call whose alerts found no receiver.
C9_Witness == RecordReturned /\ SendsFailed

IsTemperatureAlert(event) == event.type = "TemperatureAlert"

\* C10: with thermal alerts enabled a record_metrics call emits exactly one
\* TemperatureAlert with the critical threshold when the temperature has
\* reached it, else exactly one with the warning threshold when the
\* temperature has reached that, else none.
C10_OneTemperatureAlert ==
    (RecordReturned /\ alert_config.enable_thermal_alerts) =>
        LET emitted     == SelectSeq(mon_call.events, IsTemperatureAlert)
            temperature == mon_call.status.temperature
            alert(threshold) ==
                [ type        |-> "TemperatureAlert",
                  gpu_index   |-> mon_call.gpu_index,
                  temperature |-> temperature,
                  threshold   |-> threshold ]
        IN /\ Len(emitted) <= 1
           /\ emitted =
                IF temperature >= alert_config.temperature_critical
                THEN << alert(alert_config.temperature_critical) >>
                ELSE IF temperature >= alert_config.temperature_warning
                     THEN << alert(alert_config.temperature_warning) >>
                     ELSE << >>

\* A call at a temperature that has reached both thresholds.
C10_Witness ==
    /\ RecordReturned
    /\ alert_config.enable_thermal_alerts
    /\ mon_call.status.temperature >= alert_config.temperature_critical
    /\ mon_call.status.temperature >= alert_config.temperature_warning
    /\ alert_config.temperature_critical > alert_config.temperature_warning

DetectReturned == mgr_call.op = "detect_gpus"

\* C2: detect_gpus returns Ok whatever the backends answer: an empty vector
\* when no backend is registered; nothing from a vendor whose backend failed;
\* everything the other backends reported, returned and cached.
C2_DetectNeverFails ==
    DetectReturned =>
        /\ mgr_call.result.ok
        /\ (backends = {} => mgr_call.result.value = << >>)
        /\ \A k \in 1 .. Len(mgr_call.calls) :
              LET call == mgr_call.calls[k]
              IN IF call.result.ok
                 THEN /\ Range(call.result.value) \subseteq Range(mgr_call.result.value)
                      /\ Range(call.result.value) \subseteq Range(gpus)
                 ELSE \A g \in Range(mgr_call.result.value) \cup Range(gpus) :
                          g.vendor # call.vendor

\* One backend failed while another reported a device.
C2_Witness ==
    /\ DetectReturned
    /\ \E j, k \in 1 .. Len(mgr_call.calls) :
          /\ ~mgr_call.calls[j].result.ok
          /\ mgr_call.calls[k].result.ok
          /\ mgr_call.calls[k].result.value # << >>

\* what the backends reported in one detect_gpus call, in call order
RECURSIVE Reported(_)
Reported(calls) ==
    IF calls = << >> THEN << >>
    ELSE (IF Head(calls).result.ok THEN Head(calls).result.value ELSE << >>)
           \o Reported(Tail(calls))

\* C3: after detect_gpus the cache is exactly what the backends reported in
\* that call, in call order; a device cached before and not reported now is
\* gone; a repeated call on unchanged hardware leaves the same devices.
C3_CacheReplaced ==
    DetectReturned =>
        /\ gpus = Reported(mgr_call.calls)
        /\ \A g \in Range(mgr_call.pre_gpus) :
              g \notin Range(Reported(mgr_call.calls)) => g \notin Range(gpus)
        /\ (mgr_call.repeated => Range(gpus) = Range(mgr_call.pre_gpus))

\* A device of the previous cache is no longer reported while another is.
C3_Witness ==
    /\ DetectReturned
    /\ gpus # << >>
    /\ \E g \in Range(mgr_call.pre_gpus) : g \notin Range(Reported(mgr_call.calls))

ApplyReturned == mgr_call.op = "apply_config"

\* C4: apply_config with an index no cached device carries returns
\* GpuNotFound(index), invokes no backend, sends no event and leaves the
\* cache as it was.
C4_UnknownIndexNoMutation ==
    (ApplyReturned /\ ~IndexCached(mgr_call.pre_gpus, mgr_call.gpu_index)) =>
        /\ mgr_call.result = GpuNotFound(mgr_call.gpu_index)
        /\ mgr_call.calls = << >>
        /\ mgr_call.events = << >>
        /\ gpus = mgr_call.pre_gpus

\* An unknown index against a cache that holds devices.
C4_Witness ==
    /\ ApplyReturned
    /\ gpus # << >>
    /\ ~IndexCached(mgr_call.pre_gpus, mgr_call.gpu_index)

\* the first cached device carrying gpu_index
Resolved(cached, gpu_index) ==
    cached[CHOOSE k \in 1 .. Len(cached) :
               /\ cached[k].index = gpu_index
               /\ \A j \in 1 .. Len(cached) : cached[j].index = gpu_index => k <= j]

\* C5: apply_config on a cached index whose device's vendor has no backend
\* fails with BackendNotAvailable(vendor) and invokes no backend; otherwise
\* it makes one apply_config call on that vendor's backend with the same
\* index and returns what the backend returned.
C5_DelegatesToBackend ==
    (ApplyReturned /\ IndexCached(mgr_call.pre_gpus, mgr_call.gpu_index)) =>
        LET vendor == Resolved(mgr_call.pre_gpus, mgr_call.gpu_index).vendor
        IN IF vendor \notin backends
           THEN /\ mgr_call.result = BackendNotAvailable(vendor)
                /\ mgr_call.calls = << >>
           ELSE /\ Len(mgr_call.calls) = 1
                /\ mgr_call.calls[1].vendor = vendor
                /\ mgr_call.calls[1].op = "apply_config"
                /\ mgr_call.calls[1].index = mgr_call.gpu_index
                /\ mgr_call.result = mgr_call.calls[1].result

\* A delegated call whose backend failed.
C5_Witness ==
    /\ ApplyReturned
    /\ Len(mgr_call.calls) = 1
    /\ ~mgr_call.calls[1].result.ok
    /\ mgr_call.calls[1].result.error = "DeviceError"

\* C6: a per-device operation reaches the backend of the device the caller
\* addressed (the cached device whose index it passed) and no other backend.
C6_RoutedToOwner ==
    /\ (mgr_call.op \in {"apply_config", "switch_gpu"} /\ mgr_call.target # 0) =>
          \A k \in 1 .. Len(mgr_call.calls) :
              mgr_call.calls[k].vendor = mgr_call.pre_gpus[mgr_call.target].vendor
    /\ mgr_call.op = "get_all_gpu_status" =>
          \A k \in 1 .. Len(mgr_call.calls) :
              \E g \in Range(mgr_call.pre_gpus) :
                  /\ g.vendor = mgr_call.calls[k].vendor
                  /\ g.index = mgr_call.calls[k].index

SwitchReturned == mgr_call.op = "switch_gpu"

\* C7: switch_gpu sends one GpuSwitched{from_gpu, to_gpu, reason} event
\* exactly when it returns Ok; a failing call (from or to not cached, the
\* backend refusing) sends nothing.
C7_EventIffOk ==
    SwitchReturned =>
        /\ Len(mgr_call.events) <= 1
        /\ (mgr_call.result.ok <=> Len(mgr_call.events) = 1)
        /\ \A e \in Range(mgr_call.events) :
              e = [ type     |-> "GpuSwitched",
                    from_gpu |-> mgr_call.from_index,
                    to_gpu   |-> mgr_call.to_index,
                    reason   |-> mgr_call.reason ]
        /\ (~IndexCached(mgr_call.pre_gpus, mgr_call.from_index) =>
              mgr_call.result = GpuNotFound(mgr_call.from_index))
        /\ ((IndexCached(mgr_call.pre_gpus, mgr_call.from_index)
               /\ ~IndexCached(mgr_call.pre_gpus, mgr_call.to_index)) =>
              mgr_call.result = GpuNotFound(mgr_call.to_index))
        /\ \A k \in 1 .. Len(mgr_call.calls) :
              ~mgr_call.calls[k].result.ok => mgr_call.result = mgr_call.calls[k].result

\* A switch between two cached devices that the backend refused.
C7_Witness ==
    /\ SwitchReturned
    /\ Len(mgr_call.calls) = 1
    /\ ~mgr_call.calls[1].result.ok
    /\ mgr_call.from_index # mgr_call.to_index

\* C8: the flag starts false, start_monitoring sets it and stop_monitoring
\* clears it; while it is set the monitoring loop polls once per interval.
C8_FlagDrivesLoop ==
    /\ (mgr_call.op = "none" => ~monitoring_enabled)
    /\ (mgr_call.op = "start_monitoring" => monitoring_enabled)
    /\ (mgr_call.op = "stop_monitoring" => ~monitoring_enabled)
    /\ (monitoring_enabled => loop_polls = enabled_intervals)

\* the events of the call under study that have the given type
EventsOfType(events, type) == { k \in 1 .. Len(events) : events[k].type = type }

AlertsChecked == fn_args.op = "check_alerts" /\ fn_result.done

\* C11: with the rule enabled, check_alerts emits a PowerAlert exactly when
\* floor(power_draw * 100 / power_limit) >= power_usage_warning and a
\* VramAlert exactly when floor(memory_used * 100 / memory_total) >=
\* memory_usage_warning, whatever the values are, and never faults.
C11_ThresholdsExact ==
    AlertsChecked =>
        LET status == fn_args.status
            cfg    == fn_args.cfg
        IN /\ ~fn_result.panicked
           /\ (cfg.enable_power_alerts /\ status.power_limit > 0) =>
                 ( EventsOfType(fn_result.events, "PowerAlert") # {}
                   <=> GeLimbs(DivLimbs(Mul100(status.power_draw), status.power_limit),
                               Limbs(cfg.power_usage_warning)) )
           /\ (cfg.enable_memory_alerts /\ status.memory_total > 0) =>
                 ( EventsOfType(fn_result.events, "VramAlert") # {}
                   <=> GeLimbs(DivLimbs(Mul100(status.memory_used), status.memory_total),
                               Limbs(cfg.memory_usage_warning)) )

\* The alert categories: the enable flag and the event type of each.
Categories == {"thermal", "power", "memory", "performance"}

CategoryEnabled(cfg, category) ==
    CASE category = "thermal"     -> cfg.enable_thermal_alerts
      [] category = "power"       -> cfg.enable_power_alerts
      [] category = "memory"      -> cfg.enable_memory_alerts
      [] category = "performance" -> cfg.enable_performance_alerts

EnableCategory(cfg, category) ==
    CASE category = "thermal"     -> [ cfg EXCEPT !.enable_thermal_alerts = TRUE ]
      [] category = "power"       -> [ cfg EXCEPT !.enable_power_alerts = TRUE ]
      [] category = "memory"      -> [ cfg EXCEPT !.enable_memory_alerts = TRUE ]
      [] category = "performance" -> [ cfg EXCEPT !.enable_performance_alerts = TRUE ]

CategoryOf(event) ==
    CASE event.type = "TemperatureAlert"    -> "thermal"
      [] event.type = "PowerAlert"          -> "power"
      [] event.type = "VramAlert"           -> "memory"
      [] event.type = "PerformanceDegraded" -> "performance"

\* the events of a sequence that are not of the category, in order
RECURSIVE OtherEvents(_, _)
OtherEvents(events, category) ==
    IF events = << >> THEN << >>
    ELSE (IF CategoryOf(Head(events)) = category THEN << >> ELSE << Head(events) >>)
           \o OtherEvents(Tail(events), category)

\* what the last record_metrics call would have emitted under configuration cfg
EventsUnder(cfg) ==
    CheckAlerts(mon_call.gpu_index, mon_call.status, metrics_history, cfg,
                mon_call.time)

RECURSIVE QualifyingTail(_, _)
QualifyingTail(history, threshold) ==
    IF history = << >> THEN << >>
    ELSE LET last == history[Len(history)]
         IN IF last.utilization_gpu >= threshold
            THEN Append(QualifyingTail(SubSeq(history, 1, Len(history) - 1), threshold),
                        last)
            ELSE << >>

\* C13: record_metrics emits PerformanceDegraded only if the device retains
\* at least 5 points and the run of points at or above the utilization
\* threshold at the end of its history reaches back to the duration cutoff
\* (its oldest point is at least utilization_sustained_duration old).
C13_SustainedForDuration ==
    ( /\ RecordReturned
      /\ EventsOfType(mon_call.events, "PerformanceDegraded") # {} ) =>
        LET history == metrics_history[mon_call.gpu_index]
            cfg     == mon_call.config
            run     == QualifyingTail(history, cfg.utilization_sustained_threshold)
        IN /\ Len(history) >= 5
           /\ run # << >>
           /\ run[1].timestamp <= mon_call.time - cfg.utilization_sustained_duration

\* a fraction << numerator, denominator >> lies in [0, 1]
InUnitInterval(q) == q[2] > 0 /\ 0 <= q[1] /\ q[1] <= q[2]

ScoreComputed ==
    /\ fn_args.op \in {"calculate_efficiency_score", "window_efficiency_score"}
    /\ fn_result.done

\* C14: the efficiency score is within [0, 1], for calculate_efficiency_score
\* on every status in the tested ranges and for the monitor's windowed score
\* on every non-empty window whose points have utilization in 0..100.
C14_ScoreInUnitInterval ==
    ScoreComputed => InUnitInterval(fn_result.score)

\* A status score and a window score above one half have been computed, the
\* window one from points hotter than 100 degrees.
C14_Witness ==
    /\ ScoreComputed
    /\ 2 * fn_result.score[1] > fn_result.score[2]
    /\ fn_args.op = "window_efficiency_score" =>
          /\ fn_args.metrics # << >>
          /\ \A k \in 1 .. Len(fn_args.metrics) : fn_args.metrics[k].temperature > 100

AnomaliesDetected == fn_args.op = "detect_anomalies" /\ fn_result.done

\* how many of the device's points lie inside the lookback window
PointsInWindow ==
    IF fn_args.gpu_index \notin DOMAIN metrics_history THEN 0
    ELSE LET history == metrics_history[fn_args.gpu_index]
         IN Cardinality({ k \in 1 .. Len(history) :
                            now - history[k].timestamp <= fn_args.lookback_minutes * 60 })

\* C15: detect_anomalies returns an empty list whenever fewer than 10 of the
\* device's points fall inside the lookback window, whatever their values.
C15_TooFewPointsNoAnomalies ==
    (AnomaliesDetected /\ PointsInWindow < 10) => fn_result.anomalies = << >>

\* detect_anomalies on a known device with 10 or more points, 9 of them in
\* the window, the newest a temperature spike.
C15_Witness ==
    /\ AnomaliesDetected
    /\ fn_args.gpu_index \in DOMAIN metrics_history
    /\ Len(metrics_history[fn_args.gpu_index]) >= 10
    /\ PointsInWindow = 9
    /\ LET history == metrics_history[fn_args.gpu_index]
       IN history[Len(history)].temperature > 95

FanSpeedComputed == fn_args.op = "calculate_fan_speed" /\ fn_result.done

\* control points strictly ascending by temperature
AscendingTemperatures(points) ==
    \A k \in 1 .. Len(points) - 1 : points[k][1] < points[k + 1][1]

\* control points sorted by temperature (repeats allowed)
SortedTemperatures(points) ==
    \A k \in 1 .. Len(points) - 1 : points[k][1] <= points[k + 1][1]

NonDecreasingSpeeds(points) ==
    \A k \in 1 .. Len(points) - 1 : points[k][2] <= points[k + 1][2]

\* a / b truncated toward zero, b > 0
TruncDiv(a, b) == IF a >= 0 THEN a \div b ELSE 0 - ((0 - a) \div b)

\* the piecewise-linear reference on a curve ascending by temperature
ReferenceFanSpeed(points, t) ==
    IF points = << >> THEN 50
    ELSE IF t < points[1][1] THEN points[1][2]
    ELSE IF t > points[Len(points)][1] THEN points[Len(points)][2]
    ELSE IF Len(points) = 1 THEN points[1][2]
    ELSE LET k == CHOOSE j \in 1 .. Len(points) - 1 :
                      points[j][1] <= t /\ t <= points[j + 1][1]
         IN points[k][2]
              + TruncDiv((points[k + 1][2] - points[k][2]) * (t - points[k][1]),
                         points[k + 1][1] - points[k][1])

\* C16: on every curve ascending by temperature with speeds in [0, 100],
\* calculate_fan_speed equals the piecewise-linear reference (50 for the
\* empty curve, clamped outside the curve, interpolated and truncated on the
\* bracketing segment, rising or falling); on the aggressive preset it gives
\* 20, 50, 100, 20, 100 at 30, 60, 85, 25, 90.
C16_PiecewiseLinear ==
    (FanSpeedComputed /\ AscendingTemperatures(fn_args.points)) =>
        /\ fn_result.speed = ReferenceFanSpeed(fn_args.points, fn_args.temperature)
        /\ fn_args.points = FanCurveAggressive =>
              /\ fn_args.temperature = 30 => fn_result.speed = 20
              /\ fn_args.temperature = 60 => fn_result.speed = 50
              /\ fn_args.temperature = 85 => fn_result.speed = 100
              /\ fn_args.temperature = 25 => fn_result.speed = 20
              /\ fn_args.temperature = 90 => fn_result.speed = 100

\* C17: on a curve sorted by temperature whose speeds do not decrease,
\* calculate_fan_speed does not decrease with the temperature.
C17_Monotone ==
    ( /\ FanSpeedComputed
      /\ SortedTemperatures(fn_args.points)
      /\ NonDecreasingSpeeds(fn_args.points) ) =>
        \A t \in FanTemperatures :
            /\ t >= fn_args.temperature =>
                  CalculateFanSpeed(fn_args.points, t) >= fn_result.speed
            /\ t <= fn_args.temperature =>
                  CalculateFanSpeed(fn_args.points, t) <= fn_result.speed

\* A rising curve of three points with a repeated temperature, asked inside
\* its range.
C17_Witness ==
    /\ FanSpeedComputed
    /\ Len(fn_args.points) = 3
    /\ SortedTemperatures(fn_args.points)
    /\ ~AscendingTemperatures(fn_args.points)
    /\ fn_args.points[1][2] < fn_args.points[3][2]
    /\ NonDecreasingSpeeds(fn_args.points)
    /\ fn_args.temperature > fn_args.points[1][1]
    /\ fn_args.temperature < fn_args.points[3][1]
    /\ fn_result.speed > fn_args.points[1][2]

ConfigApplied == fn_args.op = "apply_config" /\ fn_result.done

\* the vendor's power unit per watt (NVML: milliwatts, hwmon: microwatts)
UnitsPerWatt(vendor) == IF vendor = "NVIDIA" THEN 1000 ELSE 1000000

\* the limit in watts a power mode stands for, given the maximum constraint
ModeLimitWatts(mode, max_watts) ==
    CASE mode = "MaxPerformance" -> max_watts
      [] mode = "Balanced"       -> (max_watts * 90) \div 100
      [] mode = "PowerSaver"     -> (max_watts * 70) \div 100

\* C18: on either backend an apply_config that succeeds with power mode
\* PowerSaver, Balanced or MaxPerformance (no explicit limit, the constraint
\* readable) leaves the device's power limit at 70 %, 90 % or 100 % of its maximum constraint
\* (315 W for PowerSaver on a 450 W device).
C18_PowerModeLimits ==
    ( /\ ConfigApplied
      /\ fn_result.result.ok
      /\ fn_args.config.power_mode \in {"MaxPerformance", "Balanced", "PowerSaver"}
      /\ fn_args.config.power_limit = None
      /\ "limit_constraints" \notin fn_args.faults ) =>
        LET unit == UnitsPerWatt(fn_args.vendor)
        IN fn_result.device.power_limit =
              ModeLimitWatts(fn_args.config.power_mode,
                             fn_args.device.max_limit \div unit) * unit

\* the sub-steps of apply_config, in order
SubSteps == << "power_mode", "power_limit", "fan_curve", "clock_offsets" >>

StepPosition(step) == CHOOSE k \in 1 .. Len(SubSteps) : SubSteps[k] = step

\* C19: apply_config runs its sub-steps in the order power mode, power
\* limit, fan curve, clock offsets; when a sub-step fails the call returns an
\* error, and what the earlier sub-steps set stays set.
C19_FailureSurfaced ==
    (ConfigApplied /\ fn_args.registered) =>
        /\ \A j, k \in 1 .. Len(fn_result.steps) :
              j < k => StepPosition(fn_result.steps[j].step)
                         < StepPosition(fn_result.steps[k].step)
        /\ (\E k \in 1 .. Len(fn_result.steps) : ~fn_result.steps[k].result.ok)
              => ~fn_result.result.ok
        /\ ( /\ Len(fn_result.steps) > 1
             /\ fn_args.config.power_mode = "PowerSaver" ) =>
              IF fn_args.vendor = "NVIDIA"
              THEN ~fn_result.device.auto_boost
              ELSE fn_result.device.performance_level = "low"

FanCurveRequested ==
    /\ fn_result.done
    /\ fn_args.vendor = "NVIDIA"
    /\ fn_args.registered
    /\ \/ fn_args.op = "set_fan_curve"
       \/ fn_args.op = "apply_config" /\ fn_args.config.fan_curve # None

\* C20: a request to apply a fan curve to a registered NVIDIA device, made
\* through set_fan_curve or through apply_config with a fan curve, fails
\* with OperationNotSupported and writes no fan setting.
C20_FanCurveNotSupported ==
    FanCurveRequested =>
        /\ fn_result.result = OperationNotSupported
        /\ fn_args.op = "set_fan_curve" => fn_result.device = fn_args.device

SpikeReported ==
    \E k \in 1 .. Len(fn_result.anomalies) :
        fn_result.anomalies[k].anomaly_type = "TemperatureSpike"

\* the points of the device inside the lookback window
WindowPoints ==
    LET history == metrics_history[fn_args.gpu_index]
    IN { k \in 1 .. Len(history) :
           now - history[k].timestamp <= fn_args.lookback_minutes * 60 }

\* C25: with at least 10 points in the lookback window, detect_anomalies
\* reports a TemperatureSpike exactly when the window's maximum temperature
\* exceeds its mean by more than 20 and exceeds 85, with severity Critical
\* above 95, High above 90 and Medium otherwise; there is at most one
\* TemperatureSpike per call, whatever the other detectors report.
C25_TemperatureSpike ==
    (AnomaliesDetected /\ PointsInWindow >= 10) =>
        LET history == metrics_history[fn_args.gpu_index]
            n       == Cardinality(WindowPoints)
            hottest == CHOOSE k \in WindowPoints :
                          \A j \in WindowPoints :
                              history[j].temperature <= history[k].temperature
            max     == history[hottest].temperature
            total   == SumOf([ k \in 1 .. Len(history) |->
                                 IF k \in WindowPoints THEN history[k]
                                 ELSE [ temperature |-> 0 ] ], "temperature")
            spikes  == { k \in 1 .. Len(fn_result.anomalies) :
                           fn_result.anomalies[k].anomaly_type = "TemperatureSpike" }
        IN /\ Cardinality(spikes) <= 1
           /\ SpikeReported <=> (n * max > total + (20 * n) /\ max > 85)
           /\ \A k \in spikes :
                 /\ fn_result.anomalies[k].gpu_index = fn_args.gpu_index
                 /\ fn_result.anomalies[k].severity =
                       (IF max > 95 THEN "Critical"
                        ELSE IF max > 90 THEN "High" ELSE "Medium")

\* a Medium spike reported next to a stuck-utilization anomaly
C25_Witness ==
    /\ AnomaliesDetected
    /\ PointsInWindow >= 10
    /\ Len(fn_result.anomalies) = 2
    /\ fn_result.anomalies[1].anomaly_type = "TemperatureSpike"
    /\ fn_result.anomalies[1].severity = "Medium"
    /\ fn_result.anomalies[2].anomaly_type = "UtilizationStuck"

\* the concrete mode Auto stands for at a given GPU utilization
AutoMode(utilization) ==
    IF utilization > 80 THEN "MaxPerformance"
    ELSE IF utilization < 20 THEN "PowerSaver"
    ELSE "Balanced"

\* C26: on either backend apply_config with power mode Auto (the utilization
\* readable) leaves the device with the settings, and the caller with the
\* result, of applying the one mode its utilization selects: MaxPerformance
\* above 80, PowerSaver below 20, Balanced otherwise.
C26_AutoAppliesOneMode ==
    ( /\ ConfigApplied
      /\ fn_args.registered
      /\ fn_args.config.power_mode = "Auto"
      /\ "utilization_rates" \notin fn_args.faults ) =>
        LET mode   == AutoMode(fn_args.device.utilization)
            direct == BackendApplyConfigSteps(fn_args.vendor, TRUE, fn_args.device,
                                              [ fn_args.config EXCEPT !.power_mode = mode ],
                                              fn_args.faults)
        IN /\ fn_result.device = direct.device
           /\ fn_result.result = direct.result

\* the history of device i, empty when it has none
HistoryOf(history_map, i) == IF i \in DOMAIN history_map THEN history_map[i] ELSE << >>

\* C29: record_metrics(i, ..) and clear_history(i) leave the history of
\* every other device as it was; clear_history(i) leaves a device that had
\* a history registered with an empty one (export_metrics(i) succeeds) and
\* leaves the statistics unchanged; clear_all_history removes every device
\* (export_metrics fails with GpuNotFound) and resets the statistics to
\* their defaults.
C29_OnlyOwnHistory ==
    [][ /\ mon_call'.op \in {"record_metrics", "clear_history"} =>
              \A j \in MonitorDevices \ {mon_call'.gpu_index} :
                  /\ (j \in DOMAIN metrics_history') = (j \in DOMAIN metrics_history)
                  /\ HistoryOf(metrics_history', j) = HistoryOf(metrics_history, j)
        /\ mon_call'.op = "clear_history" =>
              /\ stats' = stats
              /\ DOMAIN metrics_history' = DOMAIN metrics_history
              /\ mon_call'.gpu_index \in DOMAIN metrics_history =>
                    /\ metrics_history'[mon_call'.gpu_index] = << >>
                    /\ ExportMetrics(metrics_history', mon_call'.gpu_index) = OkWith(<< >>)
        /\ mon_call'.op = "clear_all_history" =>
              /\ stats' = DefaultStats
              /\ \A j \in MonitorDevices :
                    ExportMetrics(metrics_history', j) = GpuNotFound(j) ]_vars

\* clear_history has emptied one device's history while another device
\* keeps its points and the statistics still count them.
C29_Witness ==
    /\ mon_call.op = "clear_history"
    /\ mon_call.gpu_index \in DOMAIN metrics_history
    /\ metrics_history[mon_call.gpu_index] = << >>
    /\ arrivals[mon_call.gpu_index] = << >>
    /\ stats.total_metrics_collected > 1
    /\ \E j \in DOMAIN metrics_history : metrics_history[j] # << >>

\* C30: in every state reached by record_metrics, set_alert_config,
\* clear_history and clear_all_history, total_metrics_collected is the
\* number of record_metrics calls since construction or the last
\* clear_all_history, alerts_triggered is the number of alerts sent with
\* success in that period (per call never more than the rules matched), and
\* gpu_count is the number of devices that have a history entry.
C30_StatsCountCalls ==
    /\ stats.total_metrics_collected = mon_counts.recorded
    /\ stats.alerts_triggered = mon_counts.sent
    /\ stats.gpu_count = Cardinality(DOMAIN metrics_history)
    /\ RecordReturned =>
          /\ stats.alerts_triggered >= mon_call.stats_before.alerts_triggered
          /\ stats.alerts_triggered - mon_call.stats_before.alerts_triggered
                <= Len(mon_call.events)

\* Calls with alerts before and after a clear_all_history, some sent and
\* some not, on a monitor that knows two devices, one of them cleared.
C30_Witness ==
    /\ RecordReturned
    /\ mon_call.events # << >>
    /\ ~mon_call.delivered
    /\ stats.alerts_triggered > 0
    /\ stats.gpu_count = 2
    /\ \E i \in DOMAIN metrics_history : metrics_history[i] = << >>

TrendAnalyzed == fn_args.op = "analyze_performance_trend" /\ fn_result.done

\* the positions of the device's points inside the trailing window, in
\* history order
TrendWindow ==
    IF fn_args.gpu_index \notin DOMAIN metrics_history THEN << >>
    ELSE LET history == metrics_history[fn_args.gpu_index]
         IN Restrict([ k \in 1 .. Len(history) |-> k ],
                     { k \in 1 .. Len(history) :
                         now - history[k].timestamp <= fn_args.period_minutes * 60 })

\* C24: analyze_performance_trend returns None when the device has no
\* point inside the trailing window (or no history); otherwise the trend
\* direction is Unknown for fewer than 5 windowed points and, for 5 or more,
\* Improving, Degrading or Stable as the efficiency of the later points
\* minus that of the earliest floor(n/2) points is above 0.05, below -0.05
\* or neither.
C24_TrendDirection ==
    TrendAnalyzed =>
        LET n == Len(TrendWindow)
            points(from, to) ==
                [ k \in 1 .. (to - from + 1) |->
                    metrics_history[fn_args.gpu_index][TrendWindow[from + k - 1]] ]
            first  == WindowEfficiencyScore(points(1, n \div 2))
            second == WindowEfficiencyScore(points((n \div 2) + 1, n))
        IN IF n = 0 THEN fn_result.trend = None
           ELSE /\ fn_result.trend # None
                /\ fn_result.trend[1].trend_direction =
                      (IF n < 5 THEN "Unknown"
                       ELSE IF 20 * ((second[1] * first[2]) - (first[1] * second[2]))
                                 > first[2] * second[2]
                            THEN "Improving"
                       ELSE IF 20 * ((first[1] * second[2]) - (second[1] * first[2]))
                                 > first[2] * second[2]
                            THEN "Degrading"
                       ELSE "Stable")

\* Five windowed points after one that is too old: the two earliest at 50 %
\* utilization, the three later at 66 %.
C24_Witness ==
    /\ TrendAnalyzed
    /\ Len(TrendWindow) = 5
    /\ Len(metrics_history[fn_args.gpu_index]) = 6
    /\ fn_result.trend[1].trend_direction = "Improving"
    /\ metrics_history[fn_args.gpu_index][3].utilization_gpu = 50
    /\ metrics_history[fn_args.gpu_index][4].utilization_gpu = 66

\* C21: a backend operation that names an index missing from the backend's
\* device map fails with GpuNotFound(index), writes nothing to any device and
\* leaves the device's settings as they were; with an index that is in the
\* map it never answers GpuNotFound. This holds from construction on, the
\* time before the first detect_gpus included.
BackendOpCalled == backend_call.op \in BackendOps

C21_UnknownIndexIsGpuNotFound ==
    BackendOpCalled =>
        IF backend_call.index \notin backend_call.devices
        THEN /\ backend_call.result = GpuNotFound(backend_call.index)
             /\ backend_call.writes = << >>
             /\ backend_call.device = backend_call.before
        ELSE ~(~backend_call.result.ok /\ backend_call.result.error = "GpuNotFound")

\* reset_gpu of the NVIDIA backend on device 1, which the driver shows but
\* the last detection did not register
C21_Witness ==
    /\ BackendOpCalled
    /\ backend_call.vendor = "NVIDIA"
    /\ backend_call.op = "reset_gpu"
    /\ backend_call.devices = {0}
    /\ backend_call.index = 1
    /\ 1 \in hw.nvidia_visible
    /\ backend_call.result = GpuNotFound(1)

\* C22: two apply_config calls in progress on the same device index are never
\* both inside the device-mutating sub-steps of the backend.
InSubSteps(t) == tasks[t].op = "apply_config" /\ tasks[t].pc = "apply_substeps"

C22_SameIndexSerialized ==
    \A t, u \in TaskIds :
        (/\ t # u
         /\ InSubSteps(t)
         /\ InSubSteps(u)
         /\ tasks[t].vendor = tasks[u].vendor)
            => tasks[t].index # tasks[u].index

\* C28: once every call has returned, every device of the manager's cache is
\* a key of its backend's device map.
AllReturned == \A t \in TaskIds : tasks[t] = IdleTask

C28_CacheRegistered ==
    AllReturned =>
        \A k \in 1 .. Len(gpus) : gpus[k].index \in DevicesOf(gpus[k].vendor)

\* C27: every call of detect_gpus, get_all_gpu_status, apply_config or
\* switch_gpu that a task has begun returns, whatever the other task does.
C27_EveryCallReturns ==
    \A t \in TaskIds : (tasks[t] # IdleTask) ~> (tasks[t] = IdleTask)

\* a detect_gpus queued for the write lock of the cache behind an
\* apply_config that holds the read lock and is inside its sub-steps
C27_Witness ==
    \E t, u \in TaskIds :
        /\ InSubSteps(t)
        /\ tasks[u].op = "detect_gpus"
        /\ tasks[u].pc = "detect_store"
        /\ gpus_lock.waiters = << [ task |-> u, mode |-> "write" ] >>

\* C23: a send never waits for a receiver, so record_metrics can always run
\* to its end whatever the receivers have read; the channel retains the
\* newest values sent, at most its capacity of them; a receiver gets values
\* in the order they were sent, none from before it subscribed, and a value
\* it did not get had left the buffer (was older than the values retained)
\* when the receiver came to it; a receiver that was never told it lagged
\* got every value sent since it subscribed.
ReceivedPositions(r) ==
    { subscribers[r].received[k].pos : k \in 1 .. Len(subscribers[r].received) }

====
